---- MODULE Spec2Model ----
(***************************************************************************)
(* A model of the ChatGPT service adapter stack of freeapi:                *)
(*   - ChatGPTAPIClient      (Transport Client: request, handleError,      *)
(*                            retryWithBackoff, rate-limit budget)         *)
(*   - ChatGPTSessionManager (sessions, conversations, token accounting)   *)
(*   - ChatGPTService        (chat, authenticate, updateConfig)            *)
(*   - ChatGPTConfigManager  (xorEncrypt, encrypt/decryptSensitiveData,    *)
(*                            saveConfig, validateConfig)                  *)
(*   - ChatGPTServiceAdapter (saveConfiguration, sendMessage, ...)         *)
(*   - ChatGPTErrorHandler   (handleError, getRecoveryActions, history)    *)
(* Each component has its own specification (SpecClient, SpecSession,      *)
(* SpecCrypto, SpecAdapter; SpecBackoff and SpecStore for the backoff      *)
(* chain and the configuration manager taken on their own; SpecManager for *)
(* the session manager with its refresh timer; SpecHandler for the error   *)
(* handler; SpecSnapshot for the adapter's configuration operations with   *)
(* snapshots that do not validate); the variables of the other components  *)
(* stay at their initial values.  Strings that the code transforms are     *)
(* sequences of character codes; times are milliseconds.                   *)
(***************************************************************************)
EXTENDS Integers, Sequences, FiniteSets, TLC

VARIABLES
  now,            \* Date.now(), ms
  clientConfig,   \* ChatGPTAPIClient.config (max_retries, requests_per_minute)
  rateLimitInfo,  \* ChatGPTAPIClient.rateLimitInfo
  stack,          \* chain of suspended async frames of the request() in progress
  ret,            \* value or exception travelling to the frame on top of stack
  result,         \* how the caller's request() call settled
  calls,          \* request() calls made by the caller so far
  httpAttempts,   \* HTTP attempts issued by the current request() call
  totalAttempts,  \* HTTP attempts issued since construction
  outcomes,       \* what each HTTP attempt of the current call got, in order
  sleeps,         \* the delays awaited by the current call, in order
  emitted,        \* signals emitted during the current call (counts)
  history,        \* per finished call: how it settled and the budget after it
  cryptIn,        \* the configuration handed to encryptSensitiveData
  cryptKey,       \* the encryption key
  cryptEnc,       \* encryptSensitiveData's result
  cryptOut,       \* decryptSensitiveData's result on cryptEnc
  cryptPc,        \* "plain", "encrypted" or "decrypted"
  smConfig,       \* ChatGPTSessionManager.config (the object it was constructed with)
  svc,            \* ChatGPTService: config and isInitialized
  sm,             \* ChatGPTSessionManager: sessions, currentSessionId, id counters
  clientCreds,    \* ChatGPTAPIClient.config.credentials
  pending,        \* the chat() suspended on its HTTP call, and its conversation object
  lastOp,         \* the last finished operation and what it observed
  ops,            \* operations started so far
  adapter,        \* ChatGPTServiceAdapter: config, isInitialized, encryptionKey,
                  \* its error handler's history, the credentials-object counter
  file,           \* the persisted configuration file (config.json)
  backups,        \* the backup files, by content
  send,           \* the sendMessage() call in progress
  backoff,        \* a retryWithBackoff chain taken on its own
  store,          \* the configuration manager taken on its own: a file as
                  \* read from disk and what loadConfig made of it
  refresh,        \* the session manager's refresh timer (setInterval) and
                  \* what its callback did last
  handler         \* a ChatGPTErrorHandler taken on its own: its history and
                  \* the error it classified last

clientVars == <<now, clientConfig, rateLimitInfo, stack, ret, result, calls,
                httpAttempts, totalAttempts, outcomes, sleeps, emitted, history>>

cryptoVars == <<cryptIn, cryptKey, cryptEnc, cryptOut, cryptPc>>

sessionVars == <<smConfig, svc, sm, clientCreds, pending, lastOp, ops>>

adapterVars == <<adapter, file, backups, send>>

\* Functions and parts of the program evaluated on their own.
pureVars == <<backoff, store, refresh, handler>>

\* Everything but the Transport Client's variables.
nonClientVars == <<cryptoVars, pureVars, sessionVars, adapterVars>>
\* The request pipeline's variables (all of the client's but the clock).
pipelineVars == <<clientConfig, rateLimitInfo, stack, ret, result, calls,
                  httpAttempts, totalAttempts, outcomes, sleeps, emitted, history>>

vars == <<now, clientConfig, rateLimitInfo, stack, ret, result, calls,
          httpAttempts, totalAttempts, outcomes, sleeps, emitted, history,
          cryptIn, cryptKey, cryptEnc, cryptOut, cryptPc,
          smConfig, svc, sm, clientCreds, pending, lastOp, ops,
          adapter, file, backups, send, backoff, store, refresh, handler>>

----------------------------------------------------------------------------
(* Bounds of the model *)

MaxRetriesCfg == 2     \* max_retries ranges over 0..MaxRetriesCfg
MaxRpm == 2            \* requests_per_minute ranges over 1..MaxRpm
MaxCalls == 3          \* request() calls by the caller
MaxAttempts == 3       \* HTTP attempts since construction
MaxSecretLen == 2      \* longest API key / password of the round-trip inputs
MaxKeyLen == 2         \* longest encryption key of the round-trip inputs
MaxSessions == 2       \* sessions created by authenticate
MaxConvs == 2          \* conversation ids
MaxObjs == 3           \* conversation objects created
MaxOps == 3            \* operations on the service / session manager
MaxAdapterOps == 4     \* operations on the adapter
MaxManagerOps == 3     \* operations on the session manager with its timer
MaxShortSteps == 6     \* half-minute steps of the clock
MaxLongSteps == 1      \* 55-minute steps of the clock
MaxErrors == 102       \* handleError calls followed
MaxKeywords == 2       \* keywords in one error message
MaxTicks == 1          \* clock advances
MaxChatAttempts == 3   \* chat attempts of one sendMessage call
MaxBackoffAttempt == 7 \* attempt numbers of a retryWithBackoff chain

----------------------------------------------------------------------------
(* Small helpers *)

Min(a, b) == IF a < b THEN a ELSE b

RECURSIVE Pow2(_)
Pow2(n) == IF n = 0 THEN 1 ELSE 2 * Pow2(n - 1)

Last(s) == s[Len(s)]
Front(s) == SubSeq(s, 1, Len(s) - 1)

----------------------------------------------------------------------------
(* Transport Client: values, errors, responses *)

\* An axios response object carrying a body, a parsed body, or undefined.
Response(b) == [t |-> "response", body |-> b]
Body(b)     == [t |-> "body", body |-> b]
Undefined   == [t |-> "undefined", body |-> ""]

\* v.data : the body of a response object; the "data" member of a parsed
\* body (the model list has one, a chat completion has none).
Data(v) ==
  IF v.t = "response" THEN Body(v.body)
  ELSE IF v.t = "body" /\ v.body = "list" THEN Body(v.body \o ".data")
  ELSE Undefined

\* AxiosError with a response (status > 0) or without one (status = 0).
AxiosErr(status, retryAfter) ==
  [t |-> "axios", status |-> status, retryAfter |-> retryAfter, msg |-> ""]
\* A plain Error: no response member.
GenericErr(msg) == [t |-> "generic", status |-> 0, retryAfter |-> 0, msg |-> msg]

NoErr == [t |-> "none", status |-> 0, retryAfter |-> 0, msg |-> ""]
NoRet == [kind |-> "none", val |-> Undefined, err |-> NoErr]
RetValue(v) == [kind |-> "value", val |-> v, err |-> NoErr]
RetThrow(e) == [kind |-> "throw", val |-> Undefined, err |-> e]

\* error.response?.status
StatusOf(e) == IF e.t = "axios" THEN e.status ELSE 0

\* isRetryableError: no status (a network error, or any error object without
\* a response), 408, 429 or a status >= 500.
isRetryableError(e) ==
  LET status == StatusOf(e)
  IN  status = 0 \/ status = 408 \/ status = 429 \/ status >= 500

\* Response headers x-ratelimit-{limit,remaining,reset}-requests; a header
\* that is absent has its has* flag FALSE.
NoHeaders ==
  [hasLimit |-> FALSE, limit |-> 0, hasRemaining |-> FALSE, remaining |-> 0,
   hasReset |-> FALSE, reset |-> 0]
RemainingHeader(r) ==
  [hasLimit |-> FALSE, limit |-> 0, hasRemaining |-> TRUE, remaining |-> r,
   hasReset |-> FALSE, reset |-> 0]
FullHeaders(l, r, sec) ==
  [hasLimit |-> TRUE, limit |-> l, hasRemaining |-> TRUE, remaining |-> r,
   hasReset |-> TRUE, reset |-> sec]

\* updateRateLimitInfo that takes the headers but leaves used as it was.
updateRateLimitInfoStaleUsed(info, h) ==
  [limit |-> IF h.hasLimit THEN h.limit ELSE info.limit,
   remaining |-> IF h.hasRemaining THEN h.remaining ELSE info.remaining,
   reset |-> IF h.hasReset THEN h.reset * 1000 ELSE info.reset,
   used |-> info.used]

\* updateRateLimitInfo: each header present overwrites its field (the reset
\* header is read as seconds and scaled to ms); used is recomputed.
updateRateLimitInfo(info, h) ==
  LET l == IF h.hasLimit THEN h.limit ELSE info.limit
      r == IF h.hasRemaining THEN h.remaining ELSE info.remaining
      t == IF h.hasReset THEN h.reset * 1000 ELSE info.reset
  IN  [limit |-> l, remaining |-> r, reset |-> t, used |-> l - r]

\* resetRateLimit that restores the limit but leaves the budget spent.
resetRateLimitSpent(cfg, t) ==
  [limit |-> cfg.requests_per_minute, remaining |-> 0,
   reset |-> t + 60000, used |-> cfg.requests_per_minute]

\* resetRateLimit at time t (also the constructor's initial budget).
resetRateLimit(cfg, t) ==
  [limit |-> cfg.requests_per_minute, remaining |-> cfg.requests_per_minute,
   reset |-> t + 60000, used |-> 0]

\* handleError's wait for a 429: retry-after seconds, 60 s when absent.
RateLimitWaitTime(e) == IF e.retryAfter # 0 THEN e.retryAfter * 1000 ELSE 60000

\* The exponential delay without its cap.
BackoffDelayUncapped(attempt) == 1000 * Pow2(attempt)

\* retryWithBackoff's un-jittered delay for an attempt number.
BackoffDelay(attempt) == Min(1000 * Pow2(attempt), 30000)

\* Math.random() * 1000, as whole milliseconds: the two ends of the range.
JitterChoices == {0, 999}

\* Frames of the async call chain.  retry is FALSE only when the options
\* of the call carry retry: false.
RequestFrame(retry) == [fn |-> "request", pc |-> "check", retry |-> retry, attempt |-> 0]
RetryFrame(retry, attempt) ==
  [fn |-> "retryWithBackoff", pc |-> "start", retry |-> retry, attempt |-> attempt]

Top == stack[Len(stack)]
SetTop(f) == [stack EXCEPT ![Len(stack)] = f]
Push(f) == Append(stack, f)
Pop == Front(stack)

NoEmits ==
  [error |-> 0, exceeded |-> 0, authInvalid |-> 0, accessDenied |-> 0,
   waiting |-> 0, reset |-> 0, retryAttempt |-> 0]

Bump(e, f) == [e EXCEPT ![f] = @ + 1]

----------------------------------------------------------------------------
(* Config Store: strings are sequences of UTF-16 code units *)

RECURSIVE BitXor(_, _)
\* a ^ b on non-negative integers.
BitXor(a, b) ==
  IF a = 0 THEN b
  ELSE IF b = 0 THEN a
  ELSE ((a + b) % 2) + 2 * BitXor(a \div 2, b \div 2)

\* key.charCodeAt(i % key.length), i counted from 0; NaN (empty key) acts as 0
\* under ^.
KeyCodeAt(key, i) == IF key = <<>> THEN 0 ELSE key[(i % Len(key)) + 1]

\* Buffer.from(string): the UTF-8 bytes of one code unit.
Utf8(c) ==
  IF c < 128 THEN <<c>>
  ELSE IF c < 2048 THEN <<192 + (c \div 64), 128 + (c % 64)>>
  ELSE <<224 + (c \div 4096), 128 + ((c \div 64) % 64), 128 + (c % 64)>>

RECURSIVE Utf8Encode(_)
Utf8Encode(str) == IF str = <<>> THEN <<>> ELSE Utf8(Head(str)) \o Utf8Encode(Tail(str))

\* The character of a 6-bit value in the base64 alphabet A-Z a-z 0-9 + /.
B64Char(i) ==
  IF i < 26 THEN 65 + i
  ELSE IF i < 52 THEN 97 + (i - 26)
  ELSE IF i < 62 THEN 48 + (i - 52)
  ELSE IF i = 62 THEN 43 ELSE 47

B64Pad == 61   \* '='

RECURSIVE Base64(_)
\* buffer.toString('base64')
Base64(bytes) ==
  IF Len(bytes) = 0 THEN <<>>
  ELSE IF Len(bytes) = 1 THEN
    <<B64Char(bytes[1] \div 4), B64Char((bytes[1] % 4) * 16), B64Pad, B64Pad>>
  ELSE IF Len(bytes) = 2 THEN
    <<B64Char(bytes[1] \div 4),
      B64Char((bytes[1] % 4) * 16 + (bytes[2] \div 16)),
      B64Char((bytes[2] % 16) * 4), B64Pad>>
  ELSE
    <<B64Char(bytes[1] \div 4),
      B64Char((bytes[1] % 4) * 16 + (bytes[2] \div 16)),
      B64Char((bytes[2] % 16) * 4 + (bytes[3] \div 64)),
      B64Char(bytes[3] % 64)>> \o Base64(SubSeq(bytes, 4, Len(bytes)))

\* A store that writes its secrets as they are.
xorEncryptNone(text, key) == text

\* xorEncrypt: XOR each code unit with the repeating key, then base64 of the
\* UTF-8 bytes of the result.
xorEncrypt(text, key) ==
  Base64(Utf8Encode([i \in 1..Len(text) |-> BitXor(text[i], KeyCodeAt(key, i - 1))]))

\* The part of a configuration record the secret handling reads and writes.
\* api_key = <<>> stands for an absent key, hasCredentials = FALSE for an
\* absent credentials block.
SecretConfig(apiKey, hasCreds, password, accessToken) ==
  [api_key |-> apiKey, hasCredentials |-> hasCreds, password |-> password,
   access_token |-> accessToken]

\* encryptSensitiveData: a non-empty api_key and a non-empty
\* credentials.password are replaced by xorEncrypt of them.
encryptSensitiveData(config, key) ==
  [config EXCEPT
     !.api_key = IF @ # <<>> THEN xorEncrypt(@, key) ELSE @,
     !.password = IF config.hasCredentials /\ @ # <<>> THEN xorEncrypt(@, key) ELSE @]

\* decryptSensitiveData: the same fields, again through xorEncrypt.
decryptSensitiveData(config, key) ==
  [config EXCEPT
     !.api_key = IF @ # <<>> THEN xorEncrypt(@, key) ELSE @,
     !.password = IF config.hasCredentials /\ @ # <<>> THEN xorEncrypt(@, key) ELSE @]

\* Strings over an alphabet, up to a length.
RECURSIVE StringsUpTo(_, _)
StringsUpTo(alphabet, n) ==
  IF n = 0 THEN {<<>>}
  ELSE LET shorter == StringsUpTo(alphabet, n - 1)
       IN  shorter \cup {Append(x, c) : x \in shorter, c \in alphabet}

SecretAlphabet == {115, 107, 45}    \* 's', 'k', '-'
KeyAlphabet == {107, 49}            \* 'k', '1'

CryptoInit ==
  /\ cryptIn \in {SecretConfig(a, TRUE, p, <<>>) :
                    a \in StringsUpTo(SecretAlphabet, MaxSecretLen),
                    p \in StringsUpTo(SecretAlphabet, MaxSecretLen)}
  /\ cryptKey \in StringsUpTo(KeyAlphabet, MaxKeyLen) \ {<<>>}
  /\ cryptEnc = SecretConfig(<<>>, FALSE, <<>>, <<>>)
  /\ cryptOut = SecretConfig(<<>>, FALSE, <<>>, <<>>)
  /\ cryptPc = "plain"

Encrypt ==
  /\ cryptPc = "plain"
  /\ cryptEnc' = encryptSensitiveData(cryptIn, cryptKey)
  /\ cryptPc' = "encrypted"
  /\ UNCHANGED <<cryptIn, cryptKey, cryptOut>>
  /\ UNCHANGED <<clientVars, sessionVars, adapterVars, pureVars>>

Decrypt ==
  /\ cryptPc = "encrypted"
  /\ cryptOut' = decryptSensitiveData(cryptEnc, cryptKey)
  /\ cryptPc' = "decrypted"
  /\ UNCHANGED <<cryptIn, cryptKey, cryptEnc>>
  /\ UNCHANGED <<clientVars, sessionVars, adapterVars, pureVars>>

----------------------------------------------------------------------------
(* Transport Client: actions *)

T0 == 100000   \* Date.now() when the client is constructed

ClientInit ==
  /\ now = T0
  /\ clientConfig \in [max_retries : 0..MaxRetriesCfg, requests_per_minute : 1..MaxRpm]
  /\ rateLimitInfo = resetRateLimit(clientConfig, now)
  /\ stack = <<>>
  /\ ret = NoRet
  /\ result = NoRet
  /\ calls = 0
  /\ httpAttempts = 0
  /\ totalAttempts = 0
  /\ outcomes = <<>>
  /\ sleeps = <<>>
  /\ emitted = NoEmits
  /\ history = <<>>

\* The Config Store variables while another component is checked.
CryptoIdle ==
  /\ cryptIn = SecretConfig(<<>>, FALSE, <<>>, <<>>)
  /\ cryptKey = <<>>
  /\ cryptEnc = SecretConfig(<<>>, FALSE, <<>>, <<>>)
  /\ cryptOut = SecretConfig(<<>>, FALSE, <<>>, <<>>)
  /\ cryptPc = "idle"

Idle == stack = <<>> /\ ret = NoRet

\* The caller invokes request(options); callers serialize their calls.
CallRequest(retry) ==
  /\ Idle
  /\ calls < MaxCalls
  /\ calls' = calls + 1
  /\ stack' = <<RequestFrame(retry)>>
  /\ result' = NoRet
  /\ httpAttempts' = 0
  /\ outcomes' = <<>>
  /\ sleeps' = <<>>
  /\ emitted' = NoEmits
  /\ UNCHANGED <<now, clientConfig, rateLimitInfo, ret, totalAttempts, history>>
  /\ UNCHANGED nonClientVars

\* request(), lines 224-232: with the budget exhausted wait until reset
\* (when reset is still ahead), then reset the budget.
RequestCheck ==
  /\ stack # <<>> /\ ret = NoRet
  /\ Top.fn = "request" /\ Top.pc = "check"
  /\ LET exhausted == rateLimitInfo.remaining <= 0
         waitTime == rateLimitInfo.reset - now
         waits == exhausted /\ waitTime > 0
         t == IF waits THEN now + waitTime ELSE now
     IN  /\ now' = t
         /\ sleeps' = IF waits THEN Append(sleeps, [why |-> "ratelimit", ms |-> waitTime])
                      ELSE sleeps
         /\ rateLimitInfo' = IF exhausted THEN resetRateLimit(clientConfig, t)
                             ELSE rateLimitInfo
         /\ emitted' = IF exhausted
                       THEN Bump(IF waits THEN Bump(emitted, "waiting") ELSE emitted, "reset")
                       ELSE emitted
  /\ stack' = SetTop([Top EXCEPT !.pc = "send"])
  /\ UNCHANGED <<clientConfig, ret, result, calls, httpAttempts, totalAttempts,
                 outcomes, history>>
  /\ UNCHANGED nonClientVars

CanSend ==
  /\ stack # <<>> /\ ret = NoRet
  /\ Top.fn = "request" /\ Top.pc = "send"
  /\ totalAttempts < MaxAttempts

\* The attempt gets a 2xx response: the response interceptor refreshes the
\* budget and hands the response object to request(), line 245.
HttpSuccess(body, hdr) ==
  /\ CanSend
  /\ httpAttempts' = httpAttempts + 1
  /\ totalAttempts' = totalAttempts + 1
  /\ outcomes' = Append(outcomes, [ok |-> TRUE, status |-> 200, retryAfter |-> 0,
                                   body |-> body])
  /\ rateLimitInfo' = updateRateLimitInfo(rateLimitInfo, hdr)
  /\ stack' = SetTop([Top EXCEPT !.pc = "await"])
  /\ ret' = RetValue(Response(body))
  /\ UNCHANGED <<now, clientConfig, result, calls, sleeps, emitted, history>>
  /\ UNCHANGED nonClientVars

\* What handleError (lines 147-194) does with the error of a failed attempt:
\* "throw", "request" (wait, then call request again) or "backoff" (call
\* retryWithBackoff).
handleErrorBranch(e, cfg) ==
  IF StatusOf(e) = 429 THEN (IF cfg.max_retries > 0 THEN "request" ELSE "throw")
  ELSE IF StatusOf(e) = 401 \/ StatusOf(e) = 403 THEN "throw"
  ELSE IF StatusOf(e) >= 500 THEN (IF cfg.max_retries > 0 THEN "backoff" ELSE "throw")
  ELSE "throw"

\* The error handleError throws when it throws.
handleErrorThrown(e) ==
  IF StatusOf(e) = 401
    THEN GenericErr("Authentication failed. Please check your credentials.")
  ELSE IF StatusOf(e) = 403
    THEN GenericErr("Access denied. Check your API key or permissions.")
  ELSE e

handleErrorEmits(e, em) ==
  LET e1 == Bump(em, "error")
  IN  IF StatusOf(e) = 429 THEN Bump(e1, "exceeded")
      ELSE IF StatusOf(e) = 401 THEN Bump(e1, "authInvalid")
      ELSE IF StatusOf(e) = 403 THEN Bump(e1, "accessDenied")
      ELSE e1

\* The attempt fails (an error status, or no response at all): the response
\* interceptor runs handleError, whose outcome settles client.request().
HttpFailure(e) ==
  /\ CanSend
  /\ httpAttempts' = httpAttempts + 1
  /\ totalAttempts' = totalAttempts + 1
  /\ outcomes' = Append(outcomes, [ok |-> FALSE, status |-> e.status,
                                   retryAfter |-> e.retryAfter, body |-> ""])
  /\ emitted' = handleErrorEmits(e, emitted)
  /\ LET branch == handleErrorBranch(e, clientConfig)
         waiting == [Top EXCEPT !.pc = "await"]
     IN  CASE branch = "request" ->
                \* await this.delay(waitTime); return this.request(error.config)
                /\ now' = now + RateLimitWaitTime(e)
                /\ sleeps' = Append(sleeps, [why |-> "retry-after", ms |-> RateLimitWaitTime(e)])
                /\ stack' = Append(SetTop(waiting), RequestFrame(TRUE))
                /\ ret' = NoRet
           [] branch = "backoff" ->
                \* return this.retryWithBackoff(error.config)
                /\ stack' = Append(SetTop(waiting), RetryFrame(TRUE, 1))
                /\ ret' = NoRet
                /\ UNCHANGED <<now, sleeps>>
           [] OTHER ->
                /\ stack' = SetTop(waiting)
                /\ ret' = RetThrow(handleErrorThrown(e))
                /\ UNCHANGED <<now, sleeps>>
  /\ UNCHANGED <<clientConfig, rateLimitInfo, result, calls, history>>
  /\ UNCHANGED nonClientVars

\* retryWithBackoff, lines 199-211: give up past max_retries, else sleep the
\* backoff delay plus jitter and call request().
RetryWithBackoff(jitter) ==
  /\ stack # <<>> /\ ret = NoRet
  /\ Top.fn = "retryWithBackoff" /\ Top.pc = "start"
  /\ IF Top.attempt > clientConfig.max_retries
       THEN /\ stack' = Pop
            /\ ret' = RetThrow(GenericErr("Max retries exceeded"))
            /\ UNCHANGED <<now, sleeps, emitted>>
       ELSE /\ now' = now + BackoffDelay(Top.attempt) + jitter
            /\ sleeps' = Append(sleeps, [why |-> "backoff",
                                         ms |-> BackoffDelay(Top.attempt) + jitter])
            /\ emitted' = Bump(emitted, "retryAttempt")
            /\ stack' = Append(SetTop([Top EXCEPT !.pc = "await"]),
                               RequestFrame(Top.retry))
            /\ ret' = NoRet
  /\ UNCHANGED <<clientConfig, rateLimitInfo, result, calls, httpAttempts,
                 totalAttempts, outcomes, history>>
  /\ UNCHANGED nonClientVars

\* What request() returns for the value client.request() resolved to (line 246).
requestReturn(v) == Data(v)

\* request()'s catch, lines 247-254: TRUE when it goes on to retryWithBackoff.
requestCatchRetries(frame, e) == frame.retry /\ isRetryableError(e)

\* retryWithBackoff's catch, lines 212-217: TRUE when it tries the next attempt.
retryCatchRetries(e) == StatusOf(e) >= 500

\* A value or an exception reaches the frame that awaits it.
Propagate ==
  /\ stack # <<>> /\ ret # NoRet
  /\ Top.pc = "await"
  /\ IF Top.fn = "request"
       THEN IF ret.kind = "value"
              THEN /\ stack' = Pop
                   /\ ret' = RetValue(requestReturn(ret.val))
              ELSE IF requestCatchRetries(Top, ret.err)
                     THEN /\ stack' = SetTop(RetryFrame(Top.retry, 1))
                          /\ ret' = NoRet
                     ELSE /\ stack' = Pop
                          /\ ret' = ret
       ELSE IF ret.kind = "throw" /\ retryCatchRetries(ret.err)
              THEN /\ stack' = SetTop(RetryFrame(Top.retry, Top.attempt + 1))
                   /\ ret' = NoRet
              ELSE /\ stack' = Pop
                   /\ ret' = ret
  /\ UNCHANGED <<now, clientConfig, rateLimitInfo, result, calls, httpAttempts,
                 totalAttempts, outcomes, sleeps, emitted>>
  /\ UNCHANGED history
  /\ UNCHANGED nonClientVars

\* The caller's request() promise settles.
Settle ==
  /\ stack = <<>> /\ ret # NoRet
  /\ result' = ret
  /\ ret' = NoRet
  /\ history' = Append(history, [ok |-> ret.kind = "value",
                                 attempts |-> httpAttempts,
                                 resets |-> emitted.reset,
                                 remaining |-> rateLimitInfo.remaining])
  /\ UNCHANGED <<now, clientConfig, rateLimitInfo, stack, calls, httpAttempts,
                 totalAttempts, outcomes, sleeps, emitted>>
  /\ UNCHANGED nonClientVars

\* Statuses an attempt can fail with; 0 stands for no response (connection
\* failure or timeout).
FailStatuses == {0, 400, 401, 403, 408, 429, 500}
RetryAfterChoices(status) == IF status = 429 THEN {0, 2} ELSE {0}

SuccessChoices ==
  {<<"chat", NoHeaders>>, <<"list", NoHeaders>>}
    \cup {<<"chat", RemainingHeader(r)>> : r \in {0, rateLimitInfo.remaining - 1}}
    \cup {<<"chat", FullHeaders(MaxRpm, 0, 1)>>}

ClientNext ==
  \/ \E retry \in BOOLEAN : CallRequest(retry)
  \/ RequestCheck
  \/ \E c \in SuccessChoices : HttpSuccess(c[1], c[2])
  \/ \E s \in FailStatuses : \E ra \in RetryAfterChoices(s) : HttpFailure(AxiosErr(s, ra))
  \/ \E j \in JitterChoices : RetryWithBackoff(j)
  \/ Propagate
  \/ Settle


CryptoNext == Encrypt \/ Decrypt


----------------------------------------------------------------------------
----------------------------------------------------------------------------
(* Transport Client: a retryWithBackoff chain on its own *)

\* retryWithBackoff(config, attempt) under a configuration with max_retries.
\* prev is the un-jittered delay of the attempt before in the chain (0 when
\* there is none), base and delay what this attempt computed and slept.
BackoffCall(maxRetries, attempt, prev) ==
  [max_retries |-> maxRetries, attempt |-> attempt, pc |-> "start",
   prev |-> prev, base |-> 0, delay |-> 0]

NoBackoff == BackoffCall(0, 0, 0)

BackoffInit ==
  backoff \in {BackoffCall(m, a, 0) : m \in 0..MaxBackoffAttempt,
                                      a \in 1..MaxBackoffAttempt}

\* Line 200-202: past max_retries the call throws.
BackoffThrow ==
  /\ backoff.pc = "start"
  /\ backoff.attempt > backoff.max_retries
  /\ backoff' = [backoff EXCEPT !.pc = "thrown"]
  /\ UNCHANGED <<clientVars, cryptoVars, sessionVars, adapterVars, store, refresh, handler>>

\* Lines 205-206: the delay is computed and slept, jitter included.
BackoffSleep(jitter) ==
  /\ backoff.pc = "start"
  /\ backoff.attempt <= backoff.max_retries
  /\ backoff' = [backoff EXCEPT !.pc = "slept",
                                !.base = BackoffDelay(backoff.attempt),
                                !.delay = BackoffDelay(backoff.attempt) + jitter]
  /\ UNCHANGED <<clientVars, cryptoVars, sessionVars, adapterVars, store, refresh, handler>>

\* Lines 212-214: request() threw an error with a status >= 500, the chain
\* goes on with the next attempt number.
BackoffRetry ==
  /\ backoff.pc = "slept"
  /\ backoff' = BackoffCall(backoff.max_retries, backoff.attempt + 1, backoff.base)
  /\ UNCHANGED <<clientVars, cryptoVars, sessionVars, adapterVars, store, refresh, handler>>

\* Lines 211, 216: request() returned, or threw anything else.
BackoffSettle ==
  /\ backoff.pc = "slept"
  /\ backoff' = [backoff EXCEPT !.pc = "settled"]
  /\ UNCHANGED <<clientVars, cryptoVars, sessionVars, adapterVars, store, refresh, handler>>

BackoffNext ==
  \/ BackoffThrow
  \/ \E j \in JitterChoices : BackoffSleep(j)
  \/ BackoffRetry
  \/ BackoffSettle

(* Session Manager and Service Orchestrator *)

\* Functions with a growing and shrinking domain (Map).
Put(f, k, v) == [x \in (DOMAIN f) \cup {k} |-> IF x = k THEN v ELSE f[x]]
Remove(f, k) == [x \in (DOMAIN f) \ {k} |-> f[x]]
EmptyMap == [x \in {} |-> 0]

RECURSIVE SumOver(_, _)
\* The sum of f[x].token_count for x in S.
SumOver(f, S) ==
  IF S = {} THEN 0
  ELSE LET x == CHOOSE y \in S : TRUE
       IN  f[x].token_count + SumOver(f, S \ {x})

ApiKey == <<115, 107, 45>>     \* "sk-"
PlainKey == <<107, 101, 121>>  \* "key"
Password == <<112>>            \* "p"

\* The part of ChatGPTConfig the service and the session manager read.
\* base_url is "api" (https://api.openai.com/v1/, the default), "backend"
\* (https://chat.openai.com/backend-api/), "bad" (not a URL) or "".
\* credId names the credentials object: two holders with the same credId
\* hold the same object; 0 is an object the adapter's configuration does
\* not hold.
ServiceConfig(mode, apiKey, hasCreds) ==
  [mode |-> mode, api_key |-> apiKey, base_url |-> "api",
   hasCredentials |-> hasCreds,
   email |-> IF hasCreds THEN "user@example.com" ELSE "",
   password |-> IF hasCreds THEN Password ELSE <<>>,
   access_token |-> <<>>,
   credId |-> 0]

\* A credentials object as the client holds it.  session_token is empty in
\* every object the code builds: authenticateWithChatGPT answers without
\* one and switchSession passes session.session_token || ''.
Credentials(password, accessToken, credId) ==
  [present |-> TRUE, password |-> password, access_token |-> accessToken,
   session_token |-> <<>>, credId |-> credId]

NoCreds ==
  [present |-> FALSE, password |-> <<>>, access_token |-> <<>>,
   session_token |-> <<>>, credId |-> 0]

\* The two headers of a request that carry credentials: the token after
\* 'Bearer ' and the session cookie's value; <<>> is a header not sent.
\* getDefaultHeaders: run once, by the constructor, on the configuration
\* the client is constructed with.
getDefaultHeaders(apiKey) == [authorization |-> apiKey, cookie |-> <<>>]

\* addAuthHeaders: the request interceptor, on the client's configuration
\* of the moment.
addAuthHeaders(headers, mode, creds) ==
  [headers EXCEPT
     !.cookie = IF mode = "authenticated" /\ creds.present /\ creds.session_token # <<>>
                  THEN creds.session_token ELSE @,
     !.authorization = IF creds.present /\ creds.access_token # <<>>
                         THEN creds.access_token ELSE @]

\* getCurrentSession() is defined.
HasCurrent(m) == m.current # 0 /\ m.current \in DOMAIN m.sessions

\* authenticateWithChatGPT's answer with an API key: access_token = api_key,
\* expires_in = 0; createSession then uses (expires_in || 3600) * 1000.
SessionLifetime(expiresIn) == (IF expiresIn # 0 THEN expiresIn ELSE 3600) * 1000

\* createSession
NewSession(accessToken, t) ==
  [access_token |-> accessToken, expires_at |-> t + SessionLifetime(0),
   created_at |-> t, last_activity |-> t, conversations |-> EmptyMap,
   token_count |-> 0]

\* ChatGPTSessionManager.authenticate: rejected outside authenticated mode
\* and without an API key, both read from the manager's own config.
smAuthenticateOk(cfg) == cfg.mode = "authenticated" /\ cfg.api_key # <<>>

smAuthenticate(m, cfg, t) ==
  IF smAuthenticateOk(cfg)
    THEN [m EXCEPT !.sessions = Put(@, m.nextSession, NewSession(cfg.api_key, t)),
                   !.current = m.nextSession,
                   !.nextSession = @ + 1]
    ELSE m

\* The sessions with expires_at < now.
Expired(m, t) == {i \in DOMAIN m.sessions : m.sessions[i].expires_at < t}

\* The keys of the session map in the order a for-of loop visits them, which
\* is the order the sessions were created in.
RECURSIVE Entries(_)
Entries(S) ==
  IF S = {} THEN <<>>
  ELSE LET first == CHOOSE x \in S : \A y \in S : x <= y
       IN  <<first>> \o Entries(S \ {first})

\* The loop that visits only the first expired entry.
RECURSIVE cleanupLoopOnce(_, _, _, _)
cleanupLoopOnce(m, ids, t, cleanedCount) ==
  IF ids = <<>> THEN [sm |-> m, cleanedCount |-> cleanedCount]
  ELSE IF m.sessions[Head(ids)].expires_at < t
    THEN [sm |-> [m EXCEPT !.sessions = Remove(@, Head(ids)),
                           !.current = IF @ = Head(ids) THEN 0 ELSE @],
          cleanedCount |-> cleanedCount + 1]
    ELSE cleanupLoopOnce(m, Tail(ids), t, cleanedCount)

\* The loop of cleanupExpiredSessions over the entries still to visit: an
\* entry with expires_at < now is deleted and counted, and the current
\* pointer is unset when it names that entry.
RECURSIVE cleanupLoop(_, _, _, _)
cleanupLoop(m, ids, t, cleanedCount) ==
  IF ids = <<>> THEN [sm |-> m, cleanedCount |-> cleanedCount]
  ELSE IF m.sessions[Head(ids)].expires_at < t
    THEN cleanupLoop([m EXCEPT !.sessions = Remove(@, Head(ids)),
                               !.current = IF @ = Head(ids) THEN 0 ELSE @],
                     Tail(ids), t, cleanedCount + 1)
    ELSE cleanupLoop(m, Tail(ids), t, cleanedCount)

\* cleanupExpiredSessions(): the manager after it, and the count it returns.
cleanupExpiredSessions(m, t) == cleanupLoop(m, Entries(DOMAIN m.sessions), t, 0).sm
cleanedCount(m, t) == cleanupLoop(m, Entries(DOMAIN m.sessions), t, 0).cleanedCount

\* this.emit(name): ev is what a listener has heard during the operation
\* (the adapter forwards the service's events under the same names).
Emit(st, name) == [st EXCEPT !.ev = Append(@, name)]

\* switchSession that leaves the client's credentials alone.
switchSessionKeep(st, sid) ==
  IF sid \notin DOMAIN st.sm.sessions THEN [st EXCEPT !.ok = FALSE]
  ELSE Emit([st EXCEPT !.ok = TRUE, !.sm.current = sid], "session:switched")

\* switchSession(sessionId): an unknown id is refused; a known one becomes
\* current and its tokens go to the client (the password is not kept).
switchSession(st, sid) ==
  IF sid \notin DOMAIN st.sm.sessions THEN [st EXCEPT !.ok = FALSE]
  ELSE Emit([st EXCEPT !.ok = TRUE,
                       !.sm.current = sid,
                       !.creds = Credentials(<<>>, st.sm.sessions[sid].access_token, 0)],
            "session:switched")

\* String.prototype.startsWith
StartsWith(str, prefix) ==
  Len(str) >= Len(prefix) /\ SubSeq(str, 1, Len(prefix)) = prefix

\* refreshSession(): false without a current session; with an access token
\* that starts with 'sk-' only last_activity moves; anything else is refused.
refreshSession(st, t) ==
  IF ~HasCurrent(st.sm) THEN [st EXCEPT !.ok = FALSE]
  ELSE LET s0 == Emit(st, "session:refresh:start")
           session == st.sm.sessions[st.sm.current]
       IN  IF session.access_token # <<>> /\ StartsWith(session.access_token, ApiKey)
             THEN Emit([s0 EXCEPT !.ok = TRUE,
                                  !.sm.sessions[st.sm.current].last_activity = t],
                       "session:refreshed")
             ELSE Emit([s0 EXCEPT !.ok = FALSE], "session:refresh:error")

\* ChatGPTService.authenticate (with the session manager's part): the state
\* after it, and whether it succeeded.
svcAuthenticate(st, cfg, t) ==
  LET s0 == Emit(st, "service:auth:attempt")
  IN  IF smAuthenticateOk(cfg)
        THEN Emit([s0 EXCEPT !.ok = TRUE,
                             !.sm = smAuthenticate(st.sm, cfg, t),
                             !.svc.config.hasCredentials = TRUE,
                             !.svc.config.email = "user@example.com",
                             !.svc.config.password = Password,
                             !.svc.config.access_token = cfg.api_key,
                             !.svc.config.credId = 0,
                             !.creds = Credentials(Password, cfg.api_key, 0)],
                  "service:auth:success")
        ELSE Emit([s0 EXCEPT !.ok = FALSE,
                             !.err = IF cfg.mode # "authenticated" THEN "auth:mode"
                                                                   ELSE "auth:weblogin"],
                  "service:auth:error")

\* ChatGPTService.initialize: with stored email and password in authenticated
\* mode authenticate first; then sweep expired sessions.
svcInitialize(st, cfg, t) ==
  IF st.svc.initialized THEN [st EXCEPT !.ok = TRUE]
  ELSE LET s0 == Emit(st, "service:initializing")
           needsAuth == /\ st.svc.config.mode = "authenticated"
                        /\ st.svc.config.hasCredentials
                        /\ st.svc.config.email # "" /\ st.svc.config.password # <<>>
           a == IF needsAuth THEN svcAuthenticate(s0, cfg, t) ELSE [s0 EXCEPT !.ok = TRUE]
       IN  IF ~a.ok THEN Emit(a, "service:init:error")
           ELSE Emit([a EXCEPT !.sm = cleanupExpiredSessions(a.sm, t),
                               !.svc.initialized = TRUE],
                     "service:initialized")

State == [ok |-> TRUE, err |-> "none", sm |-> sm, svc |-> svc, creds |-> clientCreds,
          pend |-> pending, ev |-> <<>>]

\* addConversation on the current session.
addConversation(m, cid, obj, t) ==
  IF HasCurrent(m)
    THEN [m EXCEPT !.sessions[m.current] =
            [@ EXCEPT !.conversations = Put(@, cid, obj),
                      !.last_activity = t,
                      !.token_count = @ + obj.token_count]]
    ELSE m

\* updateConversation on the current session: the session total moves by the
\* difference between what the map holds for the id and the new object.
updateConversation(m, cid, obj, t) ==
  IF HasCurrent(m)
    THEN LET convs == m.sessions[m.current].conversations
             old == IF cid \in DOMAIN convs THEN convs[cid].token_count ELSE 0
             new == IF cid \in DOMAIN convs THEN obj.token_count ELSE 0
         IN  [m EXCEPT !.sessions[m.current] =
                [@ EXCEPT !.conversations = Put(@, cid, obj),
                          !.last_activity = t,
                          !.token_count = (@ - old) + new]]
    ELSE m

\* deleteConversation on the current session.
CanDelete(m, cid) == HasCurrent(m) /\ cid \in DOMAIN m.sessions[m.current].conversations

deleteConversation(m, cid, t) ==
  IF CanDelete(m, cid)
    THEN [m EXCEPT !.sessions[m.current] =
            [@ EXCEPT !.conversations = Remove(@, cid),
                      !.last_activity = t,
                      !.token_count = @ - m.sessions[m.current].conversations[cid].token_count]]
    ELSE m

\* clearCurrentSession
clearCurrentSession(m) ==
  IF m.current # 0
    THEN [m EXCEPT !.sessions = Remove(@, m.current), !.current = 0]
    ELSE m

\* conversation.messages.push(...) and conversation.token_count += n on the
\* object itself: every map that holds this object sees the new content.
MutateObject(m, oid, tok, msgs) ==
  [m EXCEPT !.sessions =
     [i \in DOMAIN m.sessions |->
        [m.sessions[i] EXCEPT !.conversations =
           [c \in DOMAIN m.sessions[i].conversations |->
              IF m.sessions[i].conversations[c].oid = oid
                THEN [m.sessions[i].conversations[c] EXCEPT !.token_count = tok,
                                                            !.messages = msgs]
                ELSE m.sessions[i].conversations[c]]]]]

\* A conversation object; messages are kept by their roles.
Conversation(oid, tok) == [oid |-> oid, token_count |-> tok, messages |-> <<>>]

\* createNewConversation(systemPrompt): the object starts with the system
\* message when a (non-empty) system prompt is given.
NewConversation(oid, sys) ==
  [Conversation(oid, 0) EXCEPT !.messages = IF sys THEN <<"system">> ELSE <<>>]

\* The request's messages with the system prompt put first whenever one is
\* given, whatever the conversation holds.
RequestMessagesAlways(msgs, sys) ==
  (IF sys THEN <<"system">> ELSE <<>>) \o msgs \o <<"user">>

\* chat(), lines 180-190: the messages of the request.
RequestMessages(msgs, sys) ==
  (IF sys /\ Len(msgs) = 0 THEN <<"system">> ELSE <<>>) \o msgs \o <<"user">>

NoPending == [active |-> FALSE, id |-> 0, oid |-> 0, token_count |-> 0,
              fresh |-> FALSE, sys |-> FALSE, session |-> FALSE,
              messages |-> <<>>, request |-> <<>>,
              headers |-> getDefaultHeaders(<<>>), owner |-> 0]
NoOp == [op |-> "none", ok |-> TRUE, before |-> 0, conv |-> 0, after |-> 0,
         unchanged |-> TRUE,
         fresh |-> FALSE, sys |-> FALSE, session |-> FALSE, had |-> <<>>,
         request |-> <<>>, stored |-> <<>>, again |-> FALSE, events |-> <<>>,
         arg |-> 0, count |-> 0]

CurrentTokens(m) == IF HasCurrent(m) THEN m.sessions[m.current].token_count ELSE 0

\* createNewConversation's id: one no session uses yet.
FreshConversationId(m) ==
  CHOOSE c \in 1..(MaxConvs + 1) :
    \A k \in DOMAIN m.sessions : c \notin DOMAIN m.sessions[k].conversations

\* chat() up to its HTTP call: initialize if needed, then resolve the
\* conversation (cid # 0) or create and register a new one (cid = 0).  i is
\* the state initialize() left.
chatBegin(st, cfg, cid, sys, t) ==
  CHOOSE c \in
    { LET
        headers == addAuthHeaders(getDefaultHeaders(cfg.api_key),
                                  i.svc.config.mode, i.creds)
        found == /\ HasCurrent(i.sm)
                 /\ cid \in DOMAIN i.sm.sessions[i.sm.current].conversations
        fresh == FreshConversationId(i.sm)
        existing == i.sm.sessions[i.sm.current].conversations[cid]
        created == NewConversation(i.sm.nextOid, sys)
    IN  IF ~i.ok THEN [i EXCEPT !.pend = NoPending]
        ELSE IF cid # 0 /\ ~found
          THEN [i EXCEPT !.ok = FALSE, !.err = "notfound", !.pend = NoPending]
        ELSE IF cid # 0
          THEN [i EXCEPT !.pend =
                  [NoPending EXCEPT
                     !.active = TRUE, !.id = cid, !.oid = existing.oid,
                     !.token_count = existing.token_count,
                     !.sys = sys, !.session = TRUE,
                     !.messages = existing.messages,
                     !.request = RequestMessages(existing.messages, sys),
                     !.headers = headers, !.owner = i.sm.current]]
        ELSE [i EXCEPT !.sm = [addConversation(i.sm, fresh, created, t)
                                 EXCEPT !.nextOid = @ + 1],
                       !.pend =
                         [NoPending EXCEPT
                            !.active = TRUE, !.id = fresh, !.oid = created.oid,
                            !.fresh = TRUE, !.sys = sys, !.session = HasCurrent(i.sm),
                            !.messages = created.messages,
                            !.request = RequestMessages(created.messages, sys),
                            !.headers = headers,
                            !.owner = IF HasCurrent(i.sm) THEN i.sm.current ELSE 0]]
      : i \in {svcInitialize(st, cfg, t)} } : TRUE

\* chat() after its HTTP call returned: the conversation object is updated
\* in place and handed to updateConversation.
chatFinish(m, pend, usage, t) ==
  LET msgs == pend.messages \o <<"user", "assistant">>
      tok == pend.token_count + usage
  IN  updateConversation(MutateObject(m, pend.oid, tok, msgs), pend.id,
                         [Conversation(pend.oid, tok) EXCEPT !.messages = msgs], t)

\* The messages the current session holds for a conversation id.
StoredMessages(m, cid) ==
  IF HasCurrent(m) /\ cid \in DOMAIN m.sessions[m.current].conversations
    THEN m.sessions[m.current].conversations[cid].messages
    ELSE <<>>

ConstructConfigs ==
  {ServiceConfig(mode, key, creds) :
     mode \in {"public", "authenticated"}, key \in {<<>>, ApiKey}, creds \in BOOLEAN}

\* new ChatGPTService(config): the client, the session manager and the
\* service all start from the same configuration object.
SessionInit ==
  /\ svc \in {[config |-> c, initialized |-> FALSE] : c \in ConstructConfigs}
  /\ smConfig = [mode |-> svc.config.mode, api_key |-> svc.config.api_key]
  /\ sm = [sessions |-> EmptyMap, current |-> 0, nextSession |-> 1, nextOid |-> 1]
  /\ clientCreds = IF svc.config.hasCredentials
                     THEN Credentials(svc.config.password, <<>>, 0) ELSE NoCreds
  /\ pending = NoPending
  /\ lastOp = NoOp
  /\ ops = 0
  /\ now = T0

CanStart == ops < MaxOps

\* ChatGPTService.authenticate(email, password)
Authenticate ==
  /\ CanStart
  /\ sm.nextSession <= MaxSessions
  /\ LET a == svcAuthenticate(State, smConfig, now)
     IN  /\ sm' = a.sm
         /\ svc' = a.svc
         /\ clientCreds' = a.creds
         /\ lastOp' = [NoOp EXCEPT !.op = "authenticate", !.ok = a.ok,
                                   !.unchanged = (a.sm = sm)]
  /\ ops' = ops + 1
  /\ UNCHANGED <<smConfig, pending, now>>
  /\ UNCHANGED <<pipelineVars, cryptoVars, pureVars, adapterVars>>

\* Partial<ChatGPTConfig> values handed to updateConfig.
NoChange == [hasMode |-> FALSE, mode |-> "", hasApiKey |-> FALSE, api_key |-> <<>>,
             hasBaseUrl |-> FALSE, base_url |-> "",
             hasCredentials |-> FALSE, password |-> <<>>, access_token |-> <<>>,
             credId |-> 0]
NewConfigChoices ==
  { [NoChange EXCEPT !.hasMode = TRUE, !.mode = "public"],
    [NoChange EXCEPT !.hasMode = TRUE, !.mode = "authenticated"],
    [NoChange EXCEPT !.hasApiKey = TRUE, !.api_key = ApiKey],
    [NoChange EXCEPT !.hasMode = TRUE, !.mode = "authenticated",
                     !.hasApiKey = TRUE, !.api_key = ApiKey,
                     !.hasCredentials = TRUE, !.password = Password] }

\* { ...config, ...newConfig }
MergeConfig(c, n) ==
  [c EXCEPT !.mode = IF n.hasMode THEN n.mode ELSE @,
            !.api_key = IF n.hasApiKey THEN n.api_key ELSE @,
            !.base_url = IF n.hasBaseUrl THEN n.base_url ELSE @,
            !.hasCredentials = IF n.hasCredentials THEN TRUE ELSE @,
            !.email = IF n.hasCredentials THEN "user@example.com" ELSE @,
            !.password = IF n.hasCredentials THEN n.password ELSE @,
            !.access_token = IF n.hasCredentials THEN n.access_token ELSE @,
            !.credId = IF n.hasCredentials THEN n.credId ELSE @]

\* ChatGPTService.updateConfig: the service and the client merge the partial
\* configuration; the session manager is not told.
svcUpdateConfig(st, n, t) ==
  Emit([st EXCEPT
          !.svc.config = MergeConfig(@, n),
          !.creds = IF n.hasCredentials
                      THEN Credentials(n.password, n.access_token, n.credId) ELSE @,
          !.sm = IF n.hasMode /\ n.mode = "authenticated" /\ n.hasCredentials
                   THEN cleanupExpiredSessions(@, t) ELSE @],
       "service:config:updated")

UpdateConfig(n) ==
  /\ CanStart
  /\ LET u == svcUpdateConfig(State, n, now)
     IN  /\ svc' = u.svc
         /\ clientCreds' = u.creds
         /\ sm' = u.sm
  /\ lastOp' = [NoOp EXCEPT !.op = "updateConfig"]
  /\ ops' = ops + 1
  /\ UNCHANGED <<smConfig, pending, now>>
  /\ UNCHANGED <<pipelineVars, cryptoVars, pureVars, adapterVars>>

\* chat(message, options) up to the point where it suspends on the HTTP
\* call.  cid = 0 stands for options without conversationId.
ChatStart(cid, sys) ==
  /\ CanStart
  /\ ~pending.active
  /\ sm.nextOid <= MaxObjs
  /\ cid = 0 => FreshConversationId(svcInitialize(State, smConfig, now).sm) <= MaxConvs
  /\ LET c == chatBegin(State, smConfig, cid, sys, now)
     IN  /\ svc' = c.svc
         /\ clientCreds' = c.creds
         /\ sm' = c.sm
         /\ pending' = c.pend
         /\ lastOp' = IF c.ok THEN [NoOp EXCEPT !.op = "chat:request"]
                              ELSE [NoOp EXCEPT !.op = "chat", !.ok = FALSE]
  /\ ops' = ops + 1
  /\ UNCHANGED <<smConfig, now>>
  /\ UNCHANGED <<pipelineVars, cryptoVars, pureVars, adapterVars>>

UsageChoices == {1, 2}   \* response.usage.total_tokens

\* chat(): the HTTP call returned a completion.
ChatSucceed(usage) ==
  /\ pending.active
  /\ LET before == CurrentTokens(sm)
         m == chatFinish(sm, pending, usage, now)
     IN  /\ sm' = m
         /\ lastOp' = [NoOp EXCEPT !.op = "chat", !.before = before, !.conv = usage,
                                   !.after = CurrentTokens(m),
                                   !.fresh = pending.fresh, !.sys = pending.sys,
                                   !.session = pending.session /\ HasCurrent(sm),
                                   !.had = pending.messages,
                                   !.request = pending.request,
                                   !.stored = StoredMessages(m, pending.id)]
  /\ pending' = NoPending
  /\ UNCHANGED <<smConfig, svc, clientCreds, ops, now>>
  /\ UNCHANGED <<pipelineVars, cryptoVars, pureVars, adapterVars>>

\* chat(): the HTTP call failed.
ChatFail ==
  /\ pending.active
  /\ pending' = NoPending
  /\ lastOp' = [NoOp EXCEPT !.op = "chat", !.ok = FALSE]
  /\ UNCHANGED <<smConfig, svc, sm, clientCreds, ops, now>>
  /\ UNCHANGED <<pipelineVars, cryptoVars, pureVars, adapterVars>>

\* The client emits auth:invalid (a 401 during the HTTP call): the session
\* manager's listener clears the current session.
AuthInvalid ==
  /\ pending.active
  /\ sm.current # 0
  /\ sm' = clearCurrentSession(sm)
  /\ clientCreds' = NoCreds
  /\ lastOp' = [NoOp EXCEPT !.op = "auth:invalid"]
  /\ UNCHANGED <<smConfig, svc, pending, ops, now>>
  /\ UNCHANGED <<pipelineVars, cryptoVars, pureVars, adapterVars>>

TokenChoices == {0, 2}   \* token_count of a conversation object handed in

\* ChatGPTSessionManager.addConversation(conversation), a new object.
AddConversation(cid, tok) ==
  /\ CanStart
  /\ sm.nextOid <= MaxObjs
  /\ HasCurrent(sm)
  /\ LET m == addConversation(sm, cid, Conversation(sm.nextOid, tok), now)
     IN  /\ sm' = [m EXCEPT !.nextOid = @ + 1]
         /\ lastOp' = [NoOp EXCEPT !.op = "addConversation", !.before = CurrentTokens(sm),
                                   !.conv = tok, !.after = CurrentTokens(m)]
  /\ ops' = ops + 1
  /\ UNCHANGED <<smConfig, svc, clientCreds, pending, now>>
  /\ UNCHANGED <<pipelineVars, cryptoVars, pureVars, adapterVars>>

\* ChatGPTSessionManager.updateConversation(conversation), a new object.
UpdateConversation(cid, tok) ==
  /\ CanStart
  /\ sm.nextOid <= MaxObjs
  /\ HasCurrent(sm)
  /\ LET m == updateConversation(sm, cid, Conversation(sm.nextOid, tok), now)
     IN  /\ sm' = [m EXCEPT !.nextOid = @ + 1]
         /\ lastOp' = [NoOp EXCEPT !.op = "updateConversation", !.before = CurrentTokens(sm),
                                   !.conv = tok, !.after = CurrentTokens(m)]
  /\ ops' = ops + 1
  /\ UNCHANGED <<smConfig, svc, clientCreds, pending, now>>
  /\ UNCHANGED <<pipelineVars, cryptoVars, pureVars, adapterVars>>

\* deleteConversation(conversationId)
DeleteConversation(cid) ==
  /\ CanStart
  /\ sm' = deleteConversation(sm, cid, now)
  /\ lastOp' = [NoOp EXCEPT
       !.op = "deleteConversation",
       !.ok = CanDelete(sm, cid),
       !.before = CurrentTokens(sm),
       !.conv = IF CanDelete(sm, cid)
                  THEN sm.sessions[sm.current].conversations[cid].token_count ELSE 0,
       !.after = CurrentTokens(deleteConversation(sm, cid, now)),
       !.unchanged = (deleteConversation(sm, cid, now) = sm)]
  /\ ops' = ops + 1
  /\ UNCHANGED <<smConfig, svc, clientCreds, pending, now>>
  /\ UNCHANGED <<pipelineVars, cryptoVars, pureVars, adapterVars>>

\* switchSession(sessionId)
SwitchSession(sid) ==
  /\ CanStart
  /\ LET r == switchSession(State, sid)
     IN  /\ sm' = r.sm
         /\ clientCreds' = r.creds
         /\ lastOp' = [NoOp EXCEPT !.op = "switchSession", !.ok = r.ok,
                                   !.arg = sid, !.events = r.ev]
  /\ ops' = ops + 1
  /\ UNCHANGED <<smConfig, svc, pending, now>>
  /\ UNCHANGED <<pipelineVars, cryptoVars, pureVars, adapterVars>>

\* clearCurrentSession()
ClearCurrentSession ==
  /\ CanStart
  /\ sm.current # 0
  /\ sm' = clearCurrentSession(sm)
  /\ clientCreds' = NoCreds
  /\ lastOp' = [NoOp EXCEPT !.op = "clearCurrentSession"]
  /\ ops' = ops + 1
  /\ UNCHANGED <<smConfig, svc, pending, now>>
  /\ UNCHANGED <<pipelineVars, cryptoVars, pureVars, adapterVars>>

\* cleanupExpiredSessions()
CleanupExpiredSessions ==
  /\ CanStart
  /\ sm.sessions # EmptyMap
  /\ sm' = cleanupExpiredSessions(sm, now)
  /\ lastOp' = [NoOp EXCEPT !.op = "cleanupExpiredSessions",
                            !.unchanged = (cleanupExpiredSessions(sm, now) = sm),
                            !.count = cleanedCount(sm, now)]
  /\ ops' = ops + 1
  /\ UNCHANGED <<smConfig, svc, clientCreds, pending, now>>
  /\ UNCHANGED <<pipelineVars, cryptoVars, pureVars, adapterVars>>

TickMs == 4000000

\* Time passes.
Tick ==
  /\ now < T0 + MaxTicks * TickMs
  /\ sm.sessions # EmptyMap
  /\ now' = now + TickMs
  /\ UNCHANGED <<smConfig, svc, sm, clientCreds, pending, lastOp, ops>>
  /\ UNCHANGED <<pipelineVars, cryptoVars, pureVars, adapterVars>>

SessionNext ==
  \/ Authenticate
  \/ \E n \in NewConfigChoices : UpdateConfig(n)
  \/ \E cid \in 0..MaxConvs : \E sys \in BOOLEAN : ChatStart(cid, sys)
  \/ \E u \in UsageChoices : ChatSucceed(u)
  \/ ChatFail
  \/ AuthInvalid
  \/ \E cid \in 1..MaxConvs : \E tok \in TokenChoices : AddConversation(cid, tok)
  \/ \E cid \in 1..MaxConvs : \E tok \in TokenChoices : UpdateConversation(cid, tok)
  \/ \E cid \in 1..MaxConvs : DeleteConversation(cid)
  \/ \E sid \in 1..MaxSessions : SwitchSession(sid)
  \/ ClearCurrentSession
  \/ CleanupExpiredSessions
  \/ Tick

\* The session variables while another component is checked.
SessionIdle ==
  /\ svc = [config |-> ServiceConfig("public", <<>>, FALSE), initialized |-> FALSE]
  /\ smConfig = [mode |-> "public", api_key |-> <<>>]
  /\ sm = [sessions |-> EmptyMap, current |-> 0, nextSession |-> 1, nextOid |-> 1]
  /\ clientCreds = NoCreds
  /\ pending = NoPending
  /\ lastOp = NoOp
  /\ ops = 0

PipelineIdle ==
  /\ clientConfig = [max_retries |-> 0, requests_per_minute |-> 1]
  /\ rateLimitInfo = resetRateLimit(clientConfig, T0)
  /\ stack = <<>>
  /\ ret = NoRet
  /\ result = NoRet
  /\ calls = 0
  /\ httpAttempts = 0
  /\ totalAttempts = 0
  /\ outcomes = <<>>
  /\ sleeps = <<>>
  /\ emitted = NoEmits
  /\ history = <<>>

----------------------------------------------------------------------------
(* Session Manager with its refresh timer *)

SweepInterval == 60000       \* setInterval(..., 60 * 1000)
RefreshThreshold == 300000   \* 5 * 60 * 1000
ShortStep == SweepInterval \div 2   \* the clock moves half an interval at a time
LongStep == 55 * SweepInterval      \* or 55 intervals at once

\* No timer is armed.  next: when the interval fires next; attempt: when its
\* callback last called refreshSession (0: never).
NoRefresh == [running |-> FALSE, next |-> 0, destroyed |-> FALSE, attempt |-> 0,
              since |-> 0, longs |-> 0, shorts |-> 0]

\* The test with one minute in place of five.
SweepDueLate(m, t) ==
  /\ HasCurrent(m)
  /\ m.sessions[m.current].expires_at # 0
  /\ m.sessions[m.current].expires_at - t < SweepInterval

\* The timer callback's test: a current session whose time until expiry is
\* under five minutes.
SweepDue(m, t) ==
  /\ HasCurrent(m)
  /\ m.sessions[m.current].expires_at # 0
  /\ m.sessions[m.current].expires_at - t < RefreshThreshold

\* The timer callback.
sweepCallback(st, t) == IF SweepDue(st.sm, t) THEN refreshSession(st, t) ELSE st

\* A session is current and within five minutes of its expiry, on a manager
\* that was not destroyed.
Due(m, t, r) ==
  /\ ~r.destroyed
  /\ HasCurrent(m)
  /\ m.sessions[m.current].expires_at - t < 5 * SweepInterval

\* new ChatGPTSessionManager(client, config): the interval is started in
\* authenticated mode only.
ManagerInit ==
  /\ smConfig \in {[mode |-> m, api_key |-> k] :
                     m \in {"public", "authenticated"}, k \in {<<>>, ApiKey, PlainKey}}
  /\ svc = [config |-> ServiceConfig("public", <<>>, FALSE), initialized |-> FALSE]
  /\ sm = [sessions |-> EmptyMap, current |-> 0, nextSession |-> 1, nextOid |-> 1]
  /\ clientCreds = NoCreds
  /\ pending = NoPending
  /\ lastOp = NoOp
  /\ ops = 0
  /\ now = T0
  /\ refresh = [NoRefresh EXCEPT
                  !.running = (smConfig.mode = "authenticated"),
                  !.next = IF smConfig.mode = "authenticated" THEN T0 + SweepInterval
                                                              ELSE 0]

\* since: when the session last came within five minutes of its expiry
\* (0: it is not).
Observe(r) ==
  refresh' = [r EXCEPT !.since = IF ~Due(sm', now', r) THEN 0
                                 ELSE IF Due(sm, now, refresh) THEN @
                                 ELSE now']

ManagerCanStart == ops < MaxManagerOps

ManagerFrame ==
  /\ UNCHANGED <<smConfig, svc, pending>>
  /\ UNCHANGED <<pipelineVars, cryptoVars, adapterVars, backoff, store, handler>>

\* authenticate(email, password)
ManagerAuthenticate ==
  /\ ManagerCanStart
  /\ sm.nextSession <= MaxSessions
  /\ sm' = smAuthenticate(sm, smConfig, now)
  /\ clientCreds' = IF smAuthenticateOk(smConfig)
                      THEN Credentials(Password, smConfig.api_key, 0) ELSE clientCreds
  /\ lastOp' = [NoOp EXCEPT !.op = "authenticate", !.ok = smAuthenticateOk(smConfig)]
  /\ ops' = ops + 1
  /\ UNCHANGED now
  /\ ManagerFrame
  /\ Observe(refresh)

\* refreshSession() called by the user.
ManagerRefreshSession ==
  /\ ManagerCanStart
  /\ LET r == refreshSession(State, now)
     IN  /\ sm' = r.sm
         /\ lastOp' = [NoOp EXCEPT !.op = "refreshSession", !.ok = r.ok,
                                   !.events = r.ev]
  /\ ops' = ops + 1
  /\ UNCHANGED <<now, clientCreds>>
  /\ ManagerFrame
  /\ Observe(refresh)

\* switchSession(sessionId)
ManagerSwitchSession(sid) ==
  /\ ManagerCanStart
  /\ LET r == switchSession(State, sid)
     IN  /\ sm' = r.sm
         /\ clientCreds' = r.creds
         /\ lastOp' = [NoOp EXCEPT !.op = "switchSession", !.ok = r.ok,
                                   !.arg = sid, !.events = r.ev]
  /\ ops' = ops + 1
  /\ UNCHANGED now
  /\ ManagerFrame
  /\ Observe(refresh)

\* clearCurrentSession()
ManagerClearCurrentSession ==
  /\ ManagerCanStart
  /\ sm.current # 0
  /\ sm' = clearCurrentSession(sm)
  /\ clientCreds' = NoCreds
  /\ lastOp' = [NoOp EXCEPT !.op = "clearCurrentSession"]
  /\ ops' = ops + 1
  /\ UNCHANGED now
  /\ ManagerFrame
  /\ Observe(refresh)

\* destroy(): the interval is cleared and the session map emptied.
ManagerDestroy ==
  /\ ManagerCanStart
  /\ ~refresh.destroyed
  /\ sm' = [sm EXCEPT !.sessions = EmptyMap]
  /\ lastOp' = [NoOp EXCEPT !.op = "destroy"]
  /\ ops' = ops + 1
  /\ UNCHANGED <<now, clientCreds>>
  /\ ManagerFrame
  /\ Observe([refresh EXCEPT !.running = FALSE, !.destroyed = TRUE])

\* The interval fires: the callback runs and the timer is armed again.
SweepFires ==
  /\ refresh.running
  /\ now = refresh.next
  /\ sm' = sweepCallback(State, now).sm
  /\ UNCHANGED <<now, clientCreds, lastOp, ops>>
  /\ ManagerFrame
  /\ Observe([refresh EXCEPT !.next = now + SweepInterval,
                             !.attempt = IF SweepDue(sm, now) THEN now ELSE @])

\* Time passes, never past a firing of the interval.
Elapse ==
  /\ refresh.shorts < MaxShortSteps
  /\ refresh.running => now + ShortStep <= refresh.next
  /\ now' = now + ShortStep
  /\ UNCHANGED <<sm, clientCreds, lastOp, ops>>
  /\ ManagerFrame
  /\ Observe([refresh EXCEPT !.shorts = @ + 1])

\* 55 minutes pass in which every firing of the interval finds nothing to
\* refresh.
ElapseLong ==
  /\ refresh.longs < MaxLongSteps
  /\ refresh.running => ~SweepDue(sm, now + LongStep)
  /\ now' = now + LongStep
  /\ UNCHANGED <<sm, clientCreds, lastOp, ops>>
  /\ ManagerFrame
  /\ Observe([refresh EXCEPT !.longs = @ + 1,
                             !.next = IF refresh.running THEN @ + LongStep ELSE @])

ManagerNext ==
  \/ ManagerAuthenticate
  \/ ManagerRefreshSession
  \/ \E sid \in 1..MaxSessions : ManagerSwitchSession(sid)
  \/ ManagerClearCurrentSession
  \/ ManagerDestroy
  \/ SweepFires
  \/ Elapse
  \/ ElapseLong

----------------------------------------------------------------------------
(* Error Classifier (ChatGPTErrorHandler) *)

maxHistorySize == 100

\* A thrown value as the classifier sees it: an AxiosError with an HTTP
\* status (0: no response) and an axios code, or a plain Error whose
\* lower-cased message contains the keywords in words.
AxiosError(status, code) == [t |-> "axios", status |-> status, code |-> code, words |-> {}]
PlainError(words) == [t |-> "generic", status |-> 0, code |-> "", words |-> words]

Classified(code, retryable) == [code |-> code, retryable |-> retryable]

\* handleAxiosError: the switch on the status, then on the axios code.
handleAxiosError(e) ==
  IF e.status \in {400, 404} THEN Classified("INVALID_REQUEST", FALSE)
  ELSE IF e.status = 401 THEN Classified("AUTHENTICATION_ERROR", FALSE)
  ELSE IF e.status = 403 THEN Classified("ACCESS_DENIED", FALSE)
  ELSE IF e.status = 429 THEN Classified("RATE_LIMIT_EXCEEDED", TRUE)
  ELSE IF e.status \in {500, 502, 503, 504} THEN Classified("SERVICE_UNAVAILABLE", TRUE)
  ELSE IF e.code = "ECONNABORTED" THEN Classified("TIMEOUT_ERROR", TRUE)
  ELSE IF e.code \in {"ENOTFOUND", "ECONNREFUSED"} THEN Classified("CONNECTION_ERROR", TRUE)
  ELSE Classified("API_ERROR", FALSE)

\* A classifier that looks for the quota keywords before the rate-limit ones.
handleGenericErrorQuotaFirst(e) ==
  IF e.words \cap {"network", "connection"} # {} THEN Classified("NETWORK_ERROR", TRUE)
  ELSE IF "timeout" \in e.words THEN Classified("TIMEOUT_ERROR", TRUE)
  ELSE IF e.words \cap {"auth", "login", "credential"} # {}
    THEN Classified("AUTHENTICATION_ERROR", FALSE)
  ELSE IF e.words \cap {"config", "setting"} # {} THEN Classified("CONFIGURATION_ERROR", FALSE)
  ELSE IF e.words \cap {"quota", "limit"} # {} THEN Classified("QUOTA_EXCEEDED", FALSE)
  ELSE IF e.words \cap {"rate limit", "too many requests"} # {}
    THEN Classified("RATE_LIMIT_EXCEEDED", TRUE)
  ELSE IF e.words \cap {"content", "filter"} # {} THEN Classified("CONTENT_FILTER", FALSE)
  ELSE Classified("UNKNOWN_ERROR", FALSE)

\* handleGenericError: the first keyword group found in the message decides.
handleGenericError(e) ==
  IF e.words \cap {"network", "connection"} # {} THEN Classified("NETWORK_ERROR", TRUE)
  ELSE IF "timeout" \in e.words THEN Classified("TIMEOUT_ERROR", TRUE)
  ELSE IF e.words \cap {"auth", "login", "credential"} # {}
    THEN Classified("AUTHENTICATION_ERROR", FALSE)
  ELSE IF e.words \cap {"config", "setting"} # {} THEN Classified("CONFIGURATION_ERROR", FALSE)
  ELSE IF e.words \cap {"rate limit", "too many requests"} # {}
    THEN Classified("RATE_LIMIT_EXCEEDED", TRUE)
  ELSE IF e.words \cap {"quota", "limit"} # {} THEN Classified("QUOTA_EXCEEDED", FALSE)
  ELSE IF e.words \cap {"content", "filter"} # {} THEN Classified("CONTENT_FILTER", FALSE)
  ELSE Classified("UNKNOWN_ERROR", FALSE)

normalizeError(e) == IF e.t = "axios" THEN handleAxiosError(e) ELSE handleGenericError(e)

Action(name, automatic, priority) ==
  [action |-> name, automatic |-> automatic, priority |-> priority]

\* The actions the switch of getRecoveryActions pushes for an error code.
pushedActions(code) ==
  IF code \in {"NETWORK_ERROR", "CONNECTION_ERROR"}
    THEN <<Action("check_network", FALSE, 1), Action("retry", TRUE, 2)>>
  ELSE IF code = "TIMEOUT_ERROR"
    THEN <<Action("increase_timeout", TRUE, 1), Action("retry", TRUE, 2)>>
  ELSE IF code = "RATE_LIMIT_EXCEEDED"
    THEN <<Action("wait", TRUE, 1), Action("reduce_frequency", TRUE, 2)>>
  ELSE IF code \in {"AUTHENTICATION_ERROR", "INVALID_CREDENTIALS"}
    THEN <<Action("reauthenticate", FALSE, 1), Action("check_credentials", FALSE, 2)>>
  ELSE IF code = "SESSION_EXPIRED"
    THEN <<Action("refresh_session", TRUE, 1), Action("reauthenticate", FALSE, 2)>>
  ELSE IF code = "CONFIGURATION_ERROR"
    THEN <<Action("validate_config", TRUE, 1), Action("reset_config", FALSE, 2)>>
  ELSE IF code = "SERVICE_UNAVAILABLE"
    THEN <<Action("retry", TRUE, 1), Action("check_status", FALSE, 2)>>
  ELSE IF code = "CONTENT_FILTER"
    THEN <<Action("modify_content", FALSE, 1), Action("disable_filter", FALSE, 2)>>
  ELSE <<Action("retry", TRUE, 1), Action("report", FALSE, 2)>>

\* actions.sort((a, b) => a.priority - b.priority): a stable sort.
RECURSIVE InsertByPriority(_, _)
InsertByPriority(s, a) ==
  IF s = <<>> THEN <<a>>
  ELSE IF a.priority < Head(s).priority THEN <<a>> \o s
  ELSE <<Head(s)>> \o InsertByPriority(Tail(s), a)

RECURSIVE SortByPriority(_)
SortByPriority(s) ==
  IF s = <<>> THEN <<>>
  ELSE InsertByPriority(SortByPriority(SubSeq(s, 1, Len(s) - 1)), s[Len(s)])

\* getRecoveryActions, as returned.
getRecoveryActions(code) == SortByPriority(pushedActions(code))

\* A helper that asks for every action to be automatic.
shouldAutoRecoverAll(code) ==
  \A i \in DOMAIN getRecoveryActions(code) : getRecoveryActions(code)[i].automatic

\* shouldAutoRecover: some recovery action is automatic.
shouldAutoRecover(code) ==
  \E i \in DOMAIN getRecoveryActions(code) : getRecoveryActions(code)[i].automatic

\* A history that refuses the newest entry once it is full.
PushHistoryKeepOldest(h, code) ==
  IF Len(h) + 1 > maxHistorySize THEN h ELSE Append(h, code)

\* handleError's bookkeeping: push on the history, drop the oldest entry
\* beyond maxHistorySize.
PushHistory(h, code) ==
  IF Len(h) + 1 > maxHistorySize THEN Tail(Append(h, code)) ELSE Append(h, code)

\* What the failures of the layers below look like when they are thrown.
\*   auth:mode      'Authentication only available in authenticated mode'
\*   auth:weblogin  'Web login not yet implemented. Please use API key authentication.'
\*   invalid:credentials  'Invalid configuration: Authenticated mode requires email and password'
\*   invalid        'Invalid configuration: Invalid base URL'
\*   nobackup       'Backup file not found: <path>'
ThrownFor(err) ==
  IF err = "auth:mode" THEN PlainError({"auth"})
  ELSE IF err = "auth:weblogin" THEN PlainError({"login", "auth"})
  ELSE IF err = "invalid:credentials" THEN PlainError({"config", "auth"})
  ELSE IF err = "invalid" THEN PlainError({"config"})
  ELSE PlainError({})

\* The error handler on its own.  errorHistory holds the arrival numbers
\* of the recorded errors, arrived counts the handleError calls, cleared is
\* the value of arrived at the last clearHistory; error, result, actions
\* and auto are the argument and the results of the last call.
NoHandler ==
  [pc |-> "idle", errorHistory |-> <<>>, arrived |-> 0, cleared |-> 0,
   error |-> PlainError({}), result |-> Classified("", FALSE),
   actions |-> <<>>, auto |-> FALSE]

\* The members of enum ChatGPTErrorCode.
ErrorCodes ==
  {"NETWORK_ERROR", "TIMEOUT_ERROR", "CONNECTION_ERROR", "API_ERROR",
   "RATE_LIMIT_EXCEEDED", "QUOTA_EXCEEDED", "INVALID_REQUEST",
   "AUTHENTICATION_ERROR", "INVALID_CREDENTIALS", "SESSION_EXPIRED",
   "ACCESS_DENIED", "CONFIGURATION_ERROR", "INVALID_CONFIG",
   "SERVICE_UNAVAILABLE", "MAINTENANCE_MODE", "CONTENT_FILTER",
   "POLICY_VIOLATION", "UNKNOWN_ERROR"}

\* HTTP statuses of the responses the classifier is given.
StatusChoices == {400, 401, 403, 404, 429, 500, 501, 502, 503, 504, 505, 599}

\* Axios errors: with a response (axios sets ERR_BAD_REQUEST below 500 and
\* ERR_BAD_RESPONSE from 500 on), or without one and with a transport code.
AxiosChoices ==
  {AxiosError(st, IF st < 500 THEN "ERR_BAD_REQUEST" ELSE "ERR_BAD_RESPONSE") :
     st \in StatusChoices}
  \cup {AxiosError(0, c) : c \in {"ECONNABORTED", "ENOTFOUND", "ECONNREFUSED", "ERR_NETWORK"}}

\* The substrings handleGenericError looks for.
Keywords ==
  {"network", "connection", "timeout", "auth", "login", "credential",
   "config", "setting", "rate limit", "too many requests", "quota", "limit",
   "content", "filter"}

\* A message that contains 'rate limit' contains 'limit'.
Contained(words) == IF "rate limit" \in words THEN words \cup {"limit"} ELSE words

\* Lower-cased messages, as the set of keywords they contain: up to
\* MaxKeywords of them.
MessageChoices ==
  {Contained(ws) : ws \in {w \in SUBSET Keywords : Cardinality(w) <= MaxKeywords}}

\* handleError(error): classify, record, evict the oldest beyond the cap.
HandleError(e) ==
  /\ handler.pc = "idle"
  /\ handler.arrived < MaxErrors
  /\ handler' = [handler EXCEPT !.arrived = @ + 1,
                                !.errorHistory = PushHistory(@, handler.arrived + 1),
                                !.error = e,
                                !.result = normalizeError(e)]
  /\ UNCHANGED <<clientVars, cryptoVars, sessionVars, adapterVars, backoff, store, refresh>>

\* clearHistory()
ClearHistory ==
  /\ handler.pc = "idle"
  /\ handler.errorHistory # <<>>
  /\ handler' = [handler EXCEPT !.errorHistory = <<>>, !.cleared = handler.arrived]
  /\ UNCHANGED <<clientVars, cryptoVars, sessionVars, adapterVars, backoff, store, refresh>>

\* normalizeError applied to a thrown value.
Classify ==
  /\ handler.pc = "thrown"
  /\ handler' = [handler EXCEPT !.pc = "classified", !.result = normalizeError(handler.error)]
  /\ UNCHANGED <<clientVars, cryptoVars, sessionVars, adapterVars, backoff, store, refresh>>

\* getRecoveryActions and shouldAutoRecover applied to a classified error.
Recover ==
  /\ handler.pc \in {"classified", "kind"}
  /\ handler' = [handler EXCEPT !.pc = "recovered",
                                !.actions = getRecoveryActions(handler.result.code),
                                !.auto = shouldAutoRecover(handler.result.code)]
  /\ UNCHANGED <<clientVars, cryptoVars, sessionVars, adapterVars, backoff, store, refresh>>

\* A fresh handler; or a thrown value about to be classified; or an error
\* of any kind about to be asked for its recovery actions.
HandlerInit ==
  handler \in {NoHandler}
    \cup {[NoHandler EXCEPT !.pc = "thrown", !.error = e] :
            e \in AxiosChoices \cup {PlainError(ws) : ws \in MessageChoices}}
    \cup {[NoHandler EXCEPT !.pc = "kind", !.result = Classified(c, r)] :
            c \in ErrorCodes, r \in BOOLEAN}

\* The errors whose arrival the history is followed for.
HistoryChoices ==
  {AxiosError(503, "ERR_BAD_RESPONSE"), AxiosError(0, "ECONNABORTED"), PlainError({"quota"})}

HandlerNext ==
  \/ \E e \in HistoryChoices : HandleError(e)
  \/ ClearHistory
  \/ Classify
  \/ Recover

----------------------------------------------------------------------------
(* Config Store persistence (ChatGPTConfigManager) and Service Adapter *)

EncryptionKeys == {<<107>>, <<107, 49>>}   \* "k", "k1"

\* getDefaultConfig()
DefaultConfig == ServiceConfig("public", <<>>, FALSE)

NoFile == [exists |-> FALSE, mode |-> "", api_key |-> <<>>, base_url |-> "",
           hasCredentials |-> FALSE, email |-> "", password |-> <<>>,
           access_token |-> <<>>]

\* writeJson(configFile, config)
FileOf(c) == [exists |-> TRUE, mode |-> c.mode, api_key |-> c.api_key,
              base_url |-> c.base_url, hasCredentials |-> c.hasCredentials,
              email |-> c.email, password |-> c.password,
              access_token |-> c.access_token]

\* delete config.credentials
StripCredentials(c) ==
  [c EXCEPT !.hasCredentials = FALSE, !.email = "", !.password = <<>>,
            !.access_token = <<>>, !.credId = 0]

isValidUrl(u) == u \in {"api", "backend"}

\* validateConfig's errors.  The numeric fields keep their default values in
\* this model, so their range checks never add an error.
ValidationErrors(c) ==
  (IF c.mode \notin {"public", "authenticated"} THEN {"mode"} ELSE {})
  \cup (IF c.base_url = "" \/ ~isValidUrl(c.base_url) THEN {"base_url"} ELSE {})
  \cup (IF c.mode = "authenticated"
           /\ (~c.hasCredentials \/ c.email = "" \/ c.password = <<>>)
          THEN {"credentials"} ELSE {})

validateConfig(c) == ValidationErrors(c) = {}

----------------------------------------------------------------------------
(* Config Store: configuration records with all their fields *)

\* A configuration is the record the JSON file holds: a field is there or
\* not.  temperature, top_p and the two penalties are in tenths; base_url is
\* "api" (the default URL), "backend" (the chat.openai.com URL), "bad" (not a
\* URL) or "".
defaultConfig ==
  [mode |-> "public", enabled |-> TRUE, base_url |-> "api",
   model |-> "gpt-3.5-turbo", max_tokens |-> 4096, temperature |-> 7,
   top_p |-> 10, frequency_penalty |-> 0, presence_penalty |-> 0,
   timeout |-> 30000, max_retries |-> 3, retry_delay |-> 1000,
   requests_per_minute |-> 60, tokens_per_minute |-> 150000]

\* { ...a, ...b }
Spread(a, b) ==
  [f \in DOMAIN a \cup DOMAIN b |-> IF f \in DOMAIN b THEN b[f] ELSE a[f]]

\* delete c[f]
Delete(c, f) == [g \in DOMAIN c \ {f} |-> c[g]]

\* mergeWithDefaults that keeps the credentials of a public-mode record.
mergeWithDefaultsKeep(userConfig) ==
  IF Spread(defaultConfig, userConfig).mode = "authenticated"
       /\ Spread(defaultConfig, userConfig).base_url \in {"", "api"}
    THEN [Spread(defaultConfig, userConfig) EXCEPT !.base_url = "backend"]
    ELSE Spread(defaultConfig, userConfig)

\* mergeWithDefaults(userConfig)
mergeWithDefaultsRec(userConfig) ==
  LET merged == Spread(defaultConfig, userConfig)
  IN  IF merged.mode = "public" THEN Delete(merged, "credentials")
      ELSE IF merged.mode = "authenticated" /\ merged.base_url \in {"", "api"}
        THEN [merged EXCEPT !.base_url = "backend"]
      ELSE merged

\* !config.credentials?.email || !config.credentials?.password
LacksCredentials(c) ==
  \/ "credentials" \notin DOMAIN c
  \/ c.credentials.email = ""
  \/ c.credentials.password = <<>>

\* Object.values(ChatGPTModel)
KnownModels == {"gpt-4", "gpt-4-turbo-preview", "gpt-3.5-turbo", "gpt-3.5-turbo-16k"}

\* validateConfig(config): the errors and the warnings it collects.
validateConfigRec(c) ==
  LET errors ==
        (IF c.mode \notin {"public", "authenticated"} THEN {"mode"} ELSE {})
        \cup (IF c.base_url = "" \/ ~isValidUrl(c.base_url) THEN {"base_url"} ELSE {})
        \cup (IF c.max_tokens < 1 \/ c.max_tokens > 16384 THEN {"max_tokens"} ELSE {})
        \cup (IF c.temperature < 0 \/ c.temperature > 20 THEN {"temperature"} ELSE {})
        \cup (IF c.top_p < 0 \/ c.top_p > 10 THEN {"top_p"} ELSE {})
        \cup (IF c.frequency_penalty < -20 \/ c.frequency_penalty > 20
                THEN {"frequency_penalty"} ELSE {})
        \cup (IF c.presence_penalty < -20 \/ c.presence_penalty > 20
                THEN {"presence_penalty"} ELSE {})
        \cup (IF c.mode = "authenticated" /\ LacksCredentials(c)
                THEN {"credentials"} ELSE {})
      warnings ==
        (IF c.model \notin KnownModels THEN {"model"} ELSE {})
        \cup (IF c.timeout < 1000 \/ c.timeout > 300000 THEN {"timeout"} ELSE {})
        \cup (IF c.mode = "authenticated" /\ c.base_url = defaultConfig.base_url
                THEN {"base_url"} ELSE {})
        \cup (IF c.requests_per_minute < 1 THEN {"requests_per_minute"} ELSE {})
        \cup (IF c.tokens_per_minute < 1000 THEN {"tokens_per_minute"} ELSE {})
  IN  [valid |-> errors = {}, errors |-> errors, warnings |-> warnings]

\* What a call of loadConfig comes to: it returns a configuration or throws,
\* and leaves a file behind.  The error thrown for a file that does not
\* validate is caught by loadConfig's own catch, which returns the defaults.
loadConfigRec(exists, json) ==
  IF exists
    THEN [threw |-> FALSE,
          config |-> IF validateConfigRec(mergeWithDefaultsRec(json)).valid
                       THEN mergeWithDefaultsRec(json) ELSE defaultConfig,
          exists |-> TRUE, json |-> json]
    ELSE [threw |-> FALSE, config |-> defaultConfig,
          exists |-> TRUE, json |-> defaultConfig]

EmailChoices == {"", "user@example.com"}

\* Files a user may have written: what they say about mode and credentials,
ModeRecords ==
  { <<>>, [mode |-> "public"], [mode |-> "authenticated"], [mode |-> "other"] }
  \cup { [mode |-> m, credentials |-> [email |-> e, password |-> p]] :
           m \in {"public", "authenticated"}, e \in EmailChoices,
           p \in {<<>>, Password} }
\* and one more field, at and beyond the ends of its range.
FieldRecords ==
  { <<>> }
  \cup { [base_url |-> u] : u \in {"", "bad", "backend"} }
  \cup { [model |-> "other"] }
  \cup { [max_tokens |-> n] : n \in {0, 1, 16384, 16385} }
  \cup { [temperature |-> n] : n \in {-1, 0, 20, 21} }
  \cup { [top_p |-> n] : n \in {-1, 0, 10, 11} }
  \cup { [frequency_penalty |-> n] : n \in {-21, -20, 20, 21} }
  \cup { [presence_penalty |-> n] : n \in {-21, -20, 20, 21} }
  \cup { [timeout |-> n] : n \in {999, 1000, 300000, 300001} }
  \cup { [requests_per_minute |-> n] : n \in {0, 1} }
  \cup { [tokens_per_minute |-> n] : n \in {999, 1000} }

NoResult == [threw |-> FALSE, config |-> <<>>, valid |-> FALSE]
\* existed: the file was there when loadConfig was called.
NoStore == [pc |-> "idle", exists |-> FALSE, json |-> <<>>, existed |-> FALSE,
            result |-> NoResult]
PureIdle ==
  backoff = NoBackoff /\ store = NoStore /\ refresh = NoRefresh /\ handler = NoHandler

StoreInit ==
  store \in {[NoStore EXCEPT !.pc = "file", !.exists = TRUE, !.json = Spread(m, f)] :
               m \in ModeRecords, f \in FieldRecords}
            \cup {[NoStore EXCEPT !.pc = "file"]}

\* loadConfig()
LoadConfig ==
  /\ store.pc = "file"
  /\ LET r == loadConfigRec(store.exists, store.json)
     IN  store' = [pc |-> "loaded", exists |-> r.exists, json |-> r.json,
                   existed |-> store.exists,
                   result |-> [threw |-> r.threw, config |-> r.config,
                               valid |-> ~r.threw]]
  /\ UNCHANGED <<clientVars, cryptoVars, sessionVars, adapterVars, backoff, refresh, handler>>

\* validateConfig(mergeWithDefaults(record)) on the record of the file.
ValidateMerged ==
  /\ store.pc = "file"
  /\ store.exists
  /\ store' = [store EXCEPT
       !.pc = "validated",
       !.result = [threw |-> FALSE, config |-> mergeWithDefaultsRec(store.json),
                   valid |-> validateConfigRec(mergeWithDefaultsRec(store.json)).valid]]
  /\ UNCHANGED <<clientVars, cryptoVars, sessionVars, adapterVars, backoff, refresh, handler>>

StoreNext == LoadConfig \/ ValidateMerged

\* The adapter, its service and the file as one value, so that the
\* handlers below compose.
World ==
  [ok |-> TRUE, err |-> "none", sm |-> sm, svc |-> svc, creds |-> clientCreds,
   pend |-> pending, cfg |-> adapter.config, init |-> adapter.isInitialized,
   nextCred |-> adapter.nextCred, errs |-> adapter.errorHistory, file |-> file,
   ev |-> <<>>]

\* A handler that announces the error and keeps no record of it.
handleErrorUnrecorded(w, e) == Emit(Emit(w, "error:handled"), "log")

\* errorHandler.handleError(error, context)
handleError(w, e) ==
  Emit(Emit([w EXCEPT !.errs = PushHistory(@, normalizeError(e).code)],
            "error:handled"), "log")

\* saveConfig: validate, drop the credentials outside authenticated mode,
\* write.
saveConfig(w, c) ==
  IF validateConfig(c)
    THEN [w EXCEPT !.file = FileOf(IF c.mode # "authenticated"
                                     THEN StripCredentials(c) ELSE c)]
    ELSE [w EXCEPT !.ok = FALSE,
                   !.err = IF "credentials" \in ValidationErrors(c)
                             THEN "invalid:credentials" ELSE "invalid"]

\* mergeWithDefaults on what was read from a file; id names the credentials
\* object the JSON parser made.
mergeWithDefaults(f, id) ==
  LET merged == [mode |-> f.mode, api_key |-> f.api_key, base_url |-> f.base_url,
                 hasCredentials |-> f.hasCredentials, email |-> f.email,
                 password |-> f.password, access_token |-> f.access_token,
                 credId |-> IF f.hasCredentials THEN id ELSE 0]
  IN  IF merged.mode = "public" THEN StripCredentials(merged)
      ELSE IF merged.mode = "authenticated" /\ merged.base_url \in {"", "api"}
        THEN [merged EXCEPT !.base_url = "backend"]
      ELSE merged

\* loadConfig: the merged file when it validates, the defaults otherwise; a
\* missing file is created from the defaults.
loadConfig(w) ==
  IF w.file.exists
    THEN LET merged == mergeWithDefaults(w.file, w.nextCred)
         IN  [w |-> [w EXCEPT !.nextCred = IF merged.hasCredentials THEN @ + 1 ELSE @],
              config |-> IF validateConfig(merged) THEN merged ELSE DefaultConfig]
    ELSE [w |-> [saveConfig(w, DefaultConfig) EXCEPT !.ok = TRUE, !.err = "none"],
          config |-> DefaultConfig]

\* A full configuration handed to updateConfig: every key it has overrides.
AsPartial(c) ==
  [hasMode |-> TRUE, mode |-> c.mode,
   hasApiKey |-> c.api_key # <<>>, api_key |-> c.api_key,
   hasBaseUrl |-> TRUE, base_url |-> c.base_url,
   hasCredentials |-> c.hasCredentials, password |-> c.password,
   access_token |-> c.access_token, credId |-> c.credId]

\* loadConfiguration that announces the configuration before and after
\* handing it to the service.
loadConfigurationTwice(w, key, t) ==
  LET l == loadConfig(w)
      c == decryptSensitiveData(l.config, key)
  IN  Emit(svcUpdateConfig(Emit([l.w EXCEPT !.cfg = c], "config:loaded"),
                           AsPartial(c), t), "config:loaded")

\* loadConfiguration: load, pass through decryptSensitiveData, hand to the
\* service.
loadConfiguration(w, key, t) ==
  LET l == loadConfig(w)
      c == decryptSensitiveData(l.config, key)
  IN  Emit(svcUpdateConfig([l.w EXCEPT !.cfg = c], AsPartial(c), t), "config:loaded")

\* initialize with the flag set before the service is initialized.
adapterInitializeEager(w, smc, key, t) ==
  IF w.init THEN w
  ELSE LET i == svcInitialize(
                  loadConfiguration(Emit(w, "adapter:initializing"), key, t), smc, t)
       IN  IF i.ok THEN Emit([i EXCEPT !.init = TRUE], "adapter:initialized")
           ELSE Emit(handleError([i EXCEPT !.init = TRUE], ThrownFor(i.err)),
                     "adapter:init:error")

\* ChatGPTServiceAdapter.initialize
adapterInitialize(w, smc, key, t) ==
  IF w.init THEN w
  ELSE LET i == svcInitialize(
                  loadConfiguration(Emit(w, "adapter:initializing"), key, t), smc, t)
       IN  IF i.ok THEN Emit([i EXCEPT !.init = TRUE], "adapter:initialized")
           ELSE Emit(handleError(i, ThrownFor(i.err)), "adapter:init:error")

\* encryptSensitiveData writes the encrypted password into the credentials
\* object it was given: every holder of that object sees it.
SetPassword(w, id, pw) ==
  [w EXCEPT
     !.cfg.password = pw,
     !.svc.config.password =
        IF w.svc.config.hasCredentials /\ w.svc.config.credId = id THEN pw ELSE @,
     !.creds.password = IF w.creds.present /\ w.creds.credId = id THEN pw ELSE @]

\* saveConfiguration: encryptSensitiveData, then saveConfig; a failure is
\* recorded and rethrown as 'Failed to save configuration: ...'.
saveConfiguration(w, key) ==
  LET c == w.cfg
      enc == encryptSensitiveData(c, key)
      w1 == IF c.hasCredentials /\ c.password # <<>>
              THEN SetPassword(w, c.credId, enc.password) ELSE w
      s == saveConfig(w1, enc)
  IN  IF s.ok THEN s ELSE handleError(s, ThrownFor(s.err))

\* The failure an operation's own catch records after saveConfiguration
\* rethrew: the message still carries the words of the original.
Rethrown(w) == handleError(w, PlainError(ThrownFor(w.err).words \cup {"config"}))

AdapterConstructed(key) ==
  [config |-> DefaultConfig, isInitialized |-> FALSE, nextCred |-> 1,
   errorHistory |-> <<>>, encryptionKey |-> key]

\* A conversationId the caller passes: num is the conversation it names (0:
\* none passed), words the classifier keywords its text contains.
ConversationId(num, words) == [num |-> num, words |-> words]
ConversationIdChoices ==
  { ConversationId(0, {}),                      \* no conversationId
    ConversationId(1, {}),                      \* "conv_1"
    ConversationId(MaxConvs + 1, {"network"}) } \* "network-notes"

\* errors: what the error handler made of each error the call caught.
NoSend == [pc |-> "idle", attempts |-> 0, cid |-> ConversationId(0, {}),
           outcome |-> "none", errors |-> <<>>]

\* new ChatGPTServiceAdapter(encryptionKey) on a machine without a
\* configuration file.
AdapterInit ==
  /\ adapter \in {AdapterConstructed(k) : k \in EncryptionKeys}
  /\ file = NoFile
  /\ backups = {}
  /\ send = NoSend
  /\ SessionIdle
  /\ now = T0

\* The adapter variables while another component is checked.
AdapterIdle ==
  /\ adapter = AdapterConstructed(<<107>>)
  /\ file = NoFile
  /\ backups = {}
  /\ send = NoSend

Commit(w) ==
  /\ adapter' = [adapter EXCEPT !.config = w.cfg, !.isInitialized = w.init,
                                !.nextCred = w.nextCred, !.errorHistory = w.errs]
  /\ file' = w.file
  /\ sm' = w.sm
  /\ svc' = w.svc
  /\ clientCreds' = w.creds
  /\ pending' = w.pend

AdapterCanStart == ops < MaxAdapterOps /\ send.pc = "idle"

\* initialize()
Initialize ==
  /\ AdapterCanStart
  /\ LET w == adapterInitialize(World, smConfig, adapter.encryptionKey, now)
     IN  /\ Commit(w)
         /\ lastOp' = [NoOp EXCEPT !.op = "initialize", !.ok = w.ok,
                                   !.unchanged =
                                      ([w EXCEPT !.ev = <<>>] = World),
                                   !.again = (lastOp.op = "initialize" /\ ~lastOp.ok),
                                   !.events = w.ev]
  /\ ops' = ops + 1
  /\ UNCHANGED <<smConfig, now, backups, send>>
  /\ UNCHANGED <<pipelineVars, cryptoVars, pureVars>>

\* authenticate(email, password)
AdapterAuthenticate ==
  /\ AdapterCanStart
  /\ LET w0 == adapterInitialize(World, smConfig, adapter.encryptionKey, now)
         a == svcAuthenticate(w0, smConfig, now)
         w1 == [a EXCEPT !.cfg.mode = "authenticated",
                         !.cfg.hasCredentials = TRUE,
                         !.cfg.email = "user@example.com",
                         !.cfg.password = Password,
                         !.cfg.access_token = smConfig.api_key,
                         !.cfg.credId = a.nextCred,
                         !.nextCred = @ + 1]
         w2 == saveConfiguration(w1, adapter.encryptionKey)
         w == IF ~w0.ok THEN w0
              ELSE IF ~a.ok THEN handleError(a, ThrownFor(a.err))
              ELSE IF ~w2.ok THEN Rethrown(w2)
              ELSE w2
     IN  /\ Commit(w)
         /\ lastOp' = [NoOp EXCEPT !.op = "authenticate", !.ok = w.ok]
  /\ ops' = ops + 1
  /\ UNCHANGED <<smConfig, now, backups, send>>
  /\ UNCHANGED <<pipelineVars, cryptoVars, pureVars>>

\* Partial configurations handed to updateConfiguration.
AdapterConfigChoices ==
  { [NoChange EXCEPT !.hasMode = TRUE, !.mode = "public"],
    [NoChange EXCEPT !.hasMode = TRUE, !.mode = "authenticated"],
    [NoChange EXCEPT !.hasApiKey = TRUE, !.api_key = ApiKey],
    [NoChange EXCEPT !.hasCredentials = TRUE, !.password = Password],
    [NoChange EXCEPT !.hasBaseUrl = TRUE, !.base_url = "bad"],
    [NoChange EXCEPT !.hasBaseUrl = TRUE, !.base_url = "backend"] }

\* updateConfiguration(newConfig)
UpdateConfiguration(n) ==
  /\ AdapterCanStart
  /\ LET w1 == [World EXCEPT
                  !.cfg = MergeConfig(@, [n EXCEPT !.credId = adapter.nextCred]),
                  !.nextCred = IF n.hasCredentials THEN @ + 1 ELSE @]
         w2 == svcUpdateConfig(w1, AsPartial(w1.cfg), now)
         w3 == saveConfiguration(w2, adapter.encryptionKey)
         w == IF w3.ok THEN w3 ELSE Rethrown(w3)
     IN  /\ Commit(w)
         /\ lastOp' = [NoOp EXCEPT !.op = "updateConfiguration", !.ok = w.ok,
                                   !.unchanged = /\ w.cfg = adapter.config
                                                 /\ w.svc.config = svc.config
                                                 /\ w.creds = clientCreds
                                                 /\ w.file = file]
  /\ ops' = ops + 1
  /\ UNCHANGED <<smConfig, now, backups, send>>
  /\ UNCHANGED <<pipelineVars, cryptoVars, pureVars>>

\* resetConfiguration()
ResetConfiguration ==
  /\ AdapterCanStart
  /\ LET w1 == [World EXCEPT !.cfg = DefaultConfig]
         w2 == svcUpdateConfig(w1, AsPartial(w1.cfg), now)
         w3 == saveConfiguration(w2, adapter.encryptionKey)
         w == IF w3.ok THEN w3 ELSE Rethrown(w3)
     IN  /\ Commit(w)
         /\ lastOp' = [NoOp EXCEPT !.op = "resetConfiguration", !.ok = w.ok]
  /\ ops' = ops + 1
  /\ UNCHANGED <<smConfig, now, backups, send>>
  /\ UNCHANGED <<pipelineVars, cryptoVars, pureVars>>

\* backupConfiguration(): a copy of the configuration file, when there is one.
BackupConfiguration ==
  /\ AdapterCanStart
  /\ file.exists
  /\ file \notin backups
  /\ backups' = backups \cup {file}
  /\ lastOp' = [NoOp EXCEPT !.op = "backupConfiguration"]
  /\ ops' = ops + 1
  /\ UNCHANGED <<adapter, file, send, smConfig, svc, sm, clientCreds, pending, now>>
  /\ UNCHANGED <<pipelineVars, cryptoVars, pureVars>>

\* A restore that takes the snapshot as the configuration before it looks
\* at the validation result.
RestoreConfigurationEager(b) ==
  /\ AdapterCanStart
  /\ LET merged == mergeWithDefaults(b, adapter.nextCred)
         w1 == [World EXCEPT !.nextCred = IF merged.hasCredentials THEN @ + 1 ELSE @,
                             !.cfg = IF b.exists THEN merged ELSE @]
         s == IF validateConfig(merged) THEN saveConfig(w1, merged)
              ELSE [w1 EXCEPT !.ok = FALSE, !.err = "invalid"]
         c == decryptSensitiveData(merged, adapter.encryptionKey)
         w == IF ~b.exists THEN handleError([World EXCEPT !.ok = FALSE, !.err = "nobackup"],
                                            ThrownFor("nobackup"))
              ELSE IF ~s.ok THEN handleError(s, ThrownFor(s.err))
              ELSE svcUpdateConfig([s EXCEPT !.cfg = c], AsPartial(c), now)
     IN  /\ Commit(w)
         /\ lastOp' = [NoOp EXCEPT !.op = "restoreConfiguration", !.ok = w.ok]
  /\ ops' = ops + 1
  /\ UNCHANGED <<smConfig, now, backups, send>>
  /\ UNCHANGED <<pipelineVars, cryptoVars, pureVars>>

\* restoreConfiguration(backupFile); b = NoFile is a path without a file.
RestoreConfiguration(b) ==
  /\ AdapterCanStart
  /\ LET merged == mergeWithDefaults(b, adapter.nextCred)
         w1 == [World EXCEPT !.nextCred = IF merged.hasCredentials THEN @ + 1 ELSE @]
         s == IF validateConfig(merged) THEN saveConfig(w1, merged)
              ELSE [w1 EXCEPT !.ok = FALSE, !.err = "invalid"]
         c == decryptSensitiveData(merged, adapter.encryptionKey)
         w == IF ~b.exists THEN handleError([World EXCEPT !.ok = FALSE, !.err = "nobackup"],
                                            ThrownFor("nobackup"))
              ELSE IF ~s.ok THEN handleError(s, ThrownFor(s.err))
              ELSE svcUpdateConfig([s EXCEPT !.cfg = c], AsPartial(c), now)
     IN  /\ Commit(w)
         /\ lastOp' = [NoOp EXCEPT !.op = "restoreConfiguration", !.ok = w.ok]
  /\ ops' = ops + 1
  /\ UNCHANGED <<smConfig, now, backups, send>>
  /\ UNCHANGED <<pipelineVars, cryptoVars, pureVars>>

\* Snapshots that no longer validate: a backup edited to an unusable base
\* URL, and one switched to authenticated mode without credentials.
InvalidSnapshots ==
  {FileOf([DefaultConfig EXCEPT !.base_url = "bad"]),
   FileOf([DefaultConfig EXCEPT !.mode = "authenticated"])}

\* The caller names one of the backups, or a path without a file.
RestoreFromBackup == \E b \in backups \cup {NoFile} : RestoreConfiguration(b)

\* The caller names a file of any kind: a backup, a snapshot that does not
\* validate, or a path without a file.
SnapshotChoices == backups \cup InvalidSnapshots \cup {NoFile}

RestoreSnapshot == \E b \in SnapshotChoices : RestoreConfiguration(b)

\* The process ends and a new adapter is constructed with the same key; the
\* file and the backups stay.
Restart ==
  /\ AdapterCanStart
  /\ adapter # AdapterConstructed(adapter.encryptionKey)
  /\ adapter' = AdapterConstructed(adapter.encryptionKey)
  /\ svc' = [config |-> DefaultConfig, initialized |-> FALSE]
  /\ sm' = [sessions |-> EmptyMap, current |-> 0, nextSession |-> 1, nextOid |-> 1]
  /\ clientCreds' = NoCreds
  /\ pending' = NoPending
  /\ lastOp' = [NoOp EXCEPT !.op = "restart"]
  /\ ops' = ops + 1
  /\ UNCHANGED <<smConfig, now, file, backups, send>>
  /\ UNCHANGED <<pipelineVars, cryptoVars, pureVars>>

\* sendMessage's catch block: classify and record the error, then either
\* wait to call sendMessage again or raise the user-safe message.
sendCatch(sd, e) ==
  IF shouldAutoRecover(normalizeError(e).code) /\ normalizeError(e).retryable
    THEN [sd EXCEPT !.pc = "delay", !.errors = Append(@, normalizeError(e))]
    ELSE [sd EXCEPT !.pc = "idle", !.outcome = "userSafe",
                    !.errors = Append(@, normalizeError(e))]

\* What chat() threw before its HTTP call: 'Conversation <id> not found',
\* which carries the words of the id, or the failure of initialize.
chatThrown(c, cid) == IF c.err = "notfound" THEN PlainError(cid.words) ELSE ThrownFor(c.err)

\* One pass through sendMessage's try block up to the HTTP call of chat().
sendTry(w, sd, smc, t) ==
  LET c == chatBegin(w, smc, sd.cid.num, FALSE, t)
      counted == [sd EXCEPT !.attempts = @ + 1]
  IN  IF c.ok THEN [w |-> c, send |-> [counted EXCEPT !.pc = "http"]]
      ELSE [w |-> handleError([c EXCEPT !.ok = TRUE, !.err = "none"], chatThrown(c, sd.cid)),
            send |-> sendCatch(counted, chatThrown(c, sd.cid))]

\* sendMessage(message, options): initialize if needed, then chat.
SendMessage(cid) ==
  /\ AdapterCanStart
  /\ ~pending.active
  /\ sm.nextOid <= MaxObjs
  /\ LET w0 == adapterInitialize(World, smConfig, adapter.encryptionKey, now)
         r == sendTry(w0, [NoSend EXCEPT !.cid = cid], smConfig, now)
     IN  IF ~w0.ok
           THEN /\ Commit(w0)
                /\ send' = [NoSend EXCEPT !.cid = cid, !.outcome = "raw"]
           ELSE /\ Commit(r.w)
                /\ send' = r.send
  /\ lastOp' = [NoOp EXCEPT !.op = "sendMessage"]
  /\ ops' = ops + 1
  /\ UNCHANGED <<smConfig, now, backups>>
  /\ UNCHANGED <<pipelineVars, cryptoVars, pureVars>>

\* What request() can throw into chat() under the default max_retries = 3:
\* an AxiosError with a 4xx status request() does not retry, or the
\* TypeError of reading choices of undefined after a retry inside the
\* response interceptor succeeded.
ChatFailures ==
  { AxiosError(400, "ERR_BAD_REQUEST"), AxiosError(404, "ERR_BAD_REQUEST"),
    AxiosError(422, "ERR_BAD_REQUEST"), PlainError({}) }

\* The HTTP call of the chat in progress returns a completion.
SendSucceeds(usage) ==
  /\ send.pc = "http"
  /\ sm' = chatFinish(sm, pending, usage, now)
  /\ pending' = NoPending
  /\ send' = [send EXCEPT !.pc = "idle", !.outcome = "ok"]
  /\ UNCHANGED <<adapter, file, backups, smConfig, svc, clientCreds, lastOp, ops, now>>
  /\ UNCHANGED <<pipelineVars, cryptoVars, pureVars>>

\* The HTTP call of the chat in progress fails.
SendFails(e) ==
  /\ send.pc = "http"
  /\ adapter' = [adapter EXCEPT !.errorHistory = PushHistory(@, normalizeError(e).code)]
  /\ pending' = NoPending
  /\ send' = sendCatch(send, e)
  /\ UNCHANGED <<file, backups, smConfig, svc, sm, clientCreds, lastOp, ops, now>>
  /\ UNCHANGED <<pipelineVars, cryptoVars, pureVars>>

RetryDelay == 1000

\* The delay is over: sendMessage calls itself.
SendAgain ==
  /\ send.pc = "delay"
  /\ send.attempts < MaxChatAttempts
  /\ sm.nextOid <= MaxObjs
  /\ LET r == sendTry(World, send, smConfig, now + RetryDelay)
     IN  /\ Commit(r.w)
         /\ send' = r.send
  /\ now' = now + RetryDelay
  /\ UNCHANGED <<smConfig, lastOp, ops, backups>>
  /\ UNCHANGED <<pipelineVars, cryptoVars, pureVars>>


AdapterNext ==
  \/ Initialize
  \/ AdapterAuthenticate
  \/ \E n \in AdapterConfigChoices : UpdateConfiguration(n)
  \/ ResetConfiguration
  \/ BackupConfiguration
  \/ RestoreFromBackup
  \/ Restart
  \/ \E cid \in ConversationIdChoices : SendMessage(cid)
  \/ \E u \in UsageChoices : SendSucceeds(u)
  \/ \E e \in ChatFailures : SendFails(e)
  \/ SendAgain

InitAdapter == AdapterInit /\ PipelineIdle /\ CryptoIdle /\ PureIdle

SpecAdapter == InitAdapter /\ [][AdapterNext]_vars

\* The configuration operations of the adapter, restoring from files of
\* any kind.
SnapshotNext ==
  \/ Initialize
  \/ \E n \in AdapterConfigChoices : UpdateConfiguration(n)
  \/ ResetConfiguration
  \/ BackupConfiguration
  \/ RestoreSnapshot

SpecSnapshot == InitAdapter /\ [][SnapshotNext]_vars

InitSession == SessionInit /\ PipelineIdle /\ CryptoIdle /\ AdapterIdle /\ PureIdle

SpecSession == InitSession /\ [][SessionNext]_vars

InitClient == ClientInit /\ CryptoIdle /\ SessionIdle /\ AdapterIdle /\ PureIdle

SpecClient == InitClient /\ [][ClientNext]_vars

InitCrypto ==
  CryptoInit /\ now = T0 /\ PipelineIdle /\ SessionIdle /\ AdapterIdle /\ PureIdle

SpecCrypto == InitCrypto /\ [][CryptoNext]_vars

InitBackoff ==
  /\ BackoffInit /\ store = NoStore /\ refresh = NoRefresh /\ handler = NoHandler
  /\ now = T0 /\ PipelineIdle /\ CryptoIdle /\ SessionIdle /\ AdapterIdle

SpecBackoff == InitBackoff /\ [][BackoffNext]_vars

InitStore ==
  /\ StoreInit /\ backoff = NoBackoff /\ refresh = NoRefresh /\ handler = NoHandler
  /\ now = T0 /\ PipelineIdle /\ CryptoIdle /\ SessionIdle /\ AdapterIdle

SpecStore == InitStore /\ [][StoreNext]_vars

InitManager ==
  /\ ManagerInit /\ backoff = NoBackoff /\ store = NoStore /\ handler = NoHandler
  /\ PipelineIdle /\ CryptoIdle /\ AdapterIdle

SpecManager == InitManager /\ [][ManagerNext]_vars

InitHandler ==
  /\ HandlerInit /\ backoff = NoBackoff /\ store = NoStore /\ refresh = NoRefresh
  /\ now = T0 /\ PipelineIdle /\ CryptoIdle /\ SessionIdle /\ AdapterIdle

SpecHandler == InitHandler /\ [][HandlerNext]_vars

\* makeChatRequest's catch: usageStats.rate_limited after chatCompletion()
\* threw e, given the flag before.
makeChatRequestCatch(rate_limited, e) == (StatusOf(e) = 429) \/ rate_limited

\*MODEL-END
(***************************************************************************)
(* CLAIMS                                                                  *)
(***************************************************************************)
\*CLAIMS-BEGIN

Settled == Idle /\ result # NoRet

RetryableFailure(o) == ~o.ok /\ (o.status = 429 \/ o.status >= 500 \/ o.status = 0)

AllAttemptsFailRetryably ==
  /\ outcomes # <<>>
  /\ \A i \in 1..Len(outcomes) : RetryableFailure(outcomes[i])

\* C1: a request() whose every HTTP attempt fails with a retryable failure
\* (429, status >= 500, or no response) issues at most max_retries + 1 HTTP
\* attempts, and when it settles it settles by raising an error.
C1_AtMostMaxRetries ==
  AllAttemptsFailRetryably =>
    /\ httpAttempts <= clientConfig.max_retries + 1
    /\ (Settled => result.kind = "throw")

NonRetryable4xx(o) == ~o.ok /\ o.status >= 400 /\ o.status <= 499 /\ o.status # 429

\* C2: after an HTTP attempt that got a 4xx status other than 429 the same
\* request() issues no further attempt and fails; auth:invalid (401) and
\* access:denied (403) are emitted at most once per request() call.
C2_NoRetryOnClientError ==
  /\ \A i \in 1..Len(outcomes) : NonRetryable4xx(outcomes[i]) => i = Len(outcomes)
  /\ (outcomes # <<>> /\ NonRetryable4xx(Last(outcomes)) /\ Settled) => result.kind = "throw"
  /\ emitted.authInvalid <= 1
  /\ emitted.accessDenied <= 1

\* What request() returns when its first attempt succeeds with body b.
FirstTryResult(b) == RetValue(Body(b))

\* C3: with max_retries > 0, a first attempt answered 429 with retry-after 2
\* (absent: 60 s) followed by a successful attempt makes request() sleep
\* exactly once, for that long, retry exactly once, emit ratelimit:exceeded
\* exactly once and return what a first-try success with that body returns.
C3_RateLimitedThenSuccess ==
  \A ra \in {0, 2} : \A b \in {"chat", "list"} :
    ( /\ clientConfig.max_retries > 0
      /\ Settled
      /\ Len(outcomes) = 2
      /\ outcomes[1] = [ok |-> FALSE, status |-> 429, retryAfter |-> ra, body |-> ""]
      /\ outcomes[2] = [ok |-> TRUE, status |-> 200, retryAfter |-> 0, body |-> b] )
    => /\ Len(sleeps) = 1
       /\ sleeps[1].ms >= (IF ra = 2 THEN 2000 ELSE 60000)
       /\ httpAttempts = 2
       /\ emitted.exceeded = 1
       /\ result = FirstTryResult(b)

\* The first n calls all succeeded within the first window.
FirstCallsSucceed(n) ==
  /\ n <= Len(history)
  /\ \A i \in 1..n : history[i].ok /\ history[i].resets = 0

\* C10: from a fresh client with limit L, after N <= L consecutive successful
\* request() calls within one window remaining = L - N; with N = L the next
\* call suspends until reset before it issues its HTTP attempt.
C10_BudgetCountsCalls ==
  LET L == clientConfig.requests_per_minute
  IN  /\ \A n \in 1..Len(history) :
           (n <= L /\ FirstCallsSucceed(n)) => history[n].remaining = L - n
      /\ (FirstCallsSucceed(L) /\ calls = L + 1 /\ httpAttempts > 0)
           => (sleeps # <<>> /\ sleeps[1].why = "ratelimit")

\* C6: decryptSensitiveData(encryptSensitiveData(c, k), k) gives back the
\* api_key and the credentials.password of c, for every non-empty key k.
C6_RoundTrip ==
  cryptPc = "decrypted" =>
    /\ cryptOut.api_key = cryptIn.api_key
    /\ cryptOut.password = cryptIn.password


\* C4: deleteConversation(id) on a conversation of the current session lowers
\* that session's token_count by exactly the deleted conversation's
\* token_count, and no session's token_count is ever below zero.
C4_DeleteLowersNeverNegative ==
  /\ (lastOp.op = "deleteConversation" /\ lastOp.ok) =>
        lastOp.after = lastOp.before - lastOp.conv
  /\ \A i \in DOMAIN sm.sessions : sm.sessions[i].token_count >= 0

\* C5: in every reachable state each session's token_count equals the sum of
\* the token_count of the conversations the session owns.
C5_SessionTotalIsSum ==
  \A i \in DOMAIN sm.sessions :
    sm.sessions[i].token_count =
      SumOver(sm.sessions[i].conversations, DOMAIN sm.sessions[i].conversations)

\* The configuration in effect for the service allows authentication.
ConfigAllowsAuth == svc.config.mode = "authenticated" /\ svc.config.api_key # <<>>

\* C9: authenticate succeeds exactly when the configuration in effect (after
\* any updateConfig) is in authenticated mode with an API key; when it fails
\* no session is created and the current-session pointer is unchanged.
C9_AuthenticateFollowsConfig ==
  lastOp.op = "authenticate" =>
    /\ lastOp.ok <=> ConfigAllowsAuth
    /\ ~lastOp.ok => lastOp.unchanged

\* The secrets the user configures, as typed.
PlainSecrets == {ApiKey, Password}

HoldsPlainSecret(f) ==
  f.exists /\ (f.api_key \in PlainSecrets \/ f.password \in PlainSecrets
               \/ f.access_token \in PlainSecrets)

C8_AtMostTwoChatAttempts == send.attempts <= 2

\* The budget request() leaves behind when it finds the budget exhausted:
\* the configured limit in full, with the window ending 60 s after time t.
FreshBudget(t) ==
  [limit |-> clientConfig.requests_per_minute,
   remaining |-> clientConfig.requests_per_minute,
   reset |-> t + 60000, used |-> 0]

\* A step in which an HTTP attempt is issued (first try or retry).
AttemptIssued == totalAttempts' = totalAttempts + 1

\* A step in which request() runs its rate check on an exhausted budget.
ExhaustedCheck ==
  /\ stack # <<>> /\ ret = NoRet
  /\ Top.fn = "request" /\ Top.pc = "check"
  /\ stack' = SetTop([Top EXCEPT !.pc = "send"])
  /\ rateLimitInfo.remaining <= 0

C12_BudgetInvariant ==
  /\ rateLimitInfo.remaining >= 0
  /\ rateLimitInfo.used = rateLimitInfo.limit - rateLimitInfo.remaining

\* A response header has lowered the budget in a call made after a call in
\* which the window was reset.
C12_Witness ==
  /\ rateLimitInfo.used > 0
  /\ \E i \in 1..Len(history) : history[i].resets > 0

\* min(1000 * 2^a, 30000), written out.
CappedExponential(a) == IF 1000 * (2 ^ a) < 30000 THEN 1000 * (2 ^ a) ELSE 30000

\* C13: for every attempt number a >= 1 the delay retryWithBackoff computes
\* is below min(1000 * 2^a, 30000) + 1000 <= 31000 ms, and its un-jittered
\* component min(1000 * 2^a, 30000) grows strictly from one attempt to the
\* next while it is below 30000 and stays at 30000 from then on.
C13_BackoffBounded ==
  backoff.pc = "slept" =>
    /\ backoff.attempt >= 1
    /\ backoff.base = CappedExponential(backoff.attempt)
    /\ backoff.delay >= backoff.base
    /\ backoff.delay < CappedExponential(backoff.attempt) + 1000
    /\ CappedExponential(backoff.attempt) + 1000 <= 31000
    /\ backoff.prev # 0 =>
         IF backoff.prev < 30000 THEN backoff.base > backoff.prev
                                 ELSE backoff.base = 30000

\* An attempt after the cap was reached has slept the longest possible delay.
C13_Witness ==
  /\ backoff.pc = "slept"
  /\ backoff.prev = 30000
  /\ backoff.delay = 30999

\* A successful chat() has just returned.
ChatReturned == lastOp.op = "chat" /\ lastOp.ok

\* The number of system messages among msgs.
SystemCount(msgs) == Cardinality({i \in 1..Len(msgs) : msgs[i] = "system"})

\* C14: chat(text, {systemPrompt: p}) without a conversationId, with a current
\* session, stores the conversation as exactly [system p, user text, assistant
\* reply] in that order and sends a request with exactly one system message;
\* a system message is never added to a conversation that already has
\* messages.
C14_SystemPromptFirst ==
  /\ (ChatReturned /\ lastOp.fresh /\ lastOp.sys /\ lastOp.session) =>
       /\ lastOp.stored = <<"system", "user", "assistant">>
       /\ lastOp.request = <<"system", "user">>
       /\ SystemCount(lastOp.request) = 1
  /\ (ChatReturned /\ Len(lastOp.had) > 0) =>
       /\ lastOp.request = lastOp.had \o <<"user">>
       /\ lastOp.session => lastOp.stored = lastOp.had \o <<"user", "assistant">>
  /\ \A k \in DOMAIN sm.sessions :
       \A c \in DOMAIN sm.sessions[k].conversations :
         \A i \in 2..Len(sm.sessions[k].conversations[c].messages) :
           sm.sessions[k].conversations[c].messages[i] # "system"

\* A chat with a system prompt and no conversationId has returned and its
\* conversation is stored in the current session.
C14_Witness ==
  /\ ChatReturned /\ lastOp.fresh /\ lastOp.sys /\ lastOp.session
  /\ Len(lastOp.stored) = 3

\* A sendMessage call has ended by raising an error.
SendRaised == send.pc = "idle" /\ send.outcome \in {"raw", "userSafe"}

\* C15: every error raised by sendMessage, a failure of its implicit
\* initialize included, carries the user-safe message of the kind the error
\* was classified as, never the raw error; an error of a non-retryable kind
\* is raised right after the one chat attempt that met it.
C15_UserSafeErrors ==
  SendRaised =>
    /\ send.outcome = "userSafe"
    /\ Len(send.errors) = send.attempts
    /\ \A i \in 1..Len(send.errors) :
         ~send.errors[i].retryable => i = Len(send.errors)

\* The record loadConfig or validateConfig was handed, merged with the
\* defaults.
MergedFile == mergeWithDefaultsRec(store.json)

\* C16: loadConfig() on an existing file with a structural validation error
\* fails with an error and returns no configuration; a file with only soft
\* issues loads successfully (its merged record is returned).
C16_StructuralErrorsFatal ==
  (store.pc = "loaded" /\ store.existed) =>
    IF validateConfigRec(MergedFile).errors # {}
      THEN store.result.threw
      ELSE ~store.result.threw /\ store.result.config = MergedFile

\* r is in authenticated mode and its credentials lack a non-empty email or
\* password.
AuthenticatedWithoutCredentials(r) ==
  /\ "mode" \in DOMAIN r /\ r.mode = "authenticated"
  /\ \/ "credentials" \notin DOMAIN r
     \/ r.credentials.email = ""
     \/ r.credentials.password = <<>>

\* r is a public-mode record whose other fields are in range.
PublicInRange(r) ==
  LET c == Spread(defaultConfig, r)
  IN  /\ c.mode = "public"
      /\ c.base_url \in {"api", "backend"}
      /\ c.max_tokens \in 1..16384
      /\ c.temperature \in 0..20
      /\ c.top_p \in 0..10
      /\ c.frequency_penalty \in -20..20
      /\ c.presence_penalty \in -20..20

\* C17: for every configuration record r, validateConfig(mergeWithDefaults(r))
\* is invalid when r is in authenticated mode and its credentials lack a
\* non-empty email or password, and is valid for a public-mode record with
\* all other fields in range, whose merged result has no credentials block.
C17_MergeThenValidate ==
  store.pc = "validated" =>
    /\ AuthenticatedWithoutCredentials(store.json) => ~store.result.valid
    /\ PublicInRange(store.json) =>
         /\ store.result.valid
         /\ "credentials" \notin DOMAIN store.result.config

\* A public-mode record that came with credentials has been merged and
\* validated.
C17_Witness ==
  /\ store.pc = "validated"
  /\ PublicInRange(store.json)
  /\ "credentials" \in DOMAIN store.json
  /\ store.result.valid

\* C18: when updateConfiguration(partial) fails because the merged
\* configuration does not validate, the configuration in effect afterwards
\* (the adapter's, the service's and the client's) is the one from before
\* the call and the persisted file is unchanged.
C18_FailedUpdateChangesNothing ==
  (lastOp.op = "updateConfiguration" /\ ~lastOp.ok) => lastOp.unchanged

\* A step that is a call of the adapter's initialize().
InitializeCall == ops' = ops + 1 /\ lastOp'.op = "initialize"

\* The configuration asks for the automatic authentication: authenticated
\* mode with a stored email and password.
StoredLogin(c) ==
  c.mode = "authenticated" /\ c.hasCredentials /\ c.email # "" /\ c.password # <<>>

Times(ev, name) == Cardinality({i \in 1..Len(ev) : ev[i] = name})
Place(ev, name) == CHOOSE i \in 1..Len(ev) : ev[i] = name

\* The events of initialize() in the order the claim gives them.
InitializeEvents ==
  <<"adapter:initializing", "config:loaded", "service:initializing",
    "service:initialized", "adapter:initialized">>

EachOnceInOrder(ev) ==
  /\ \A k \in 1..Len(InitializeEvents) : Times(ev, InitializeEvents[k]) = 1
  /\ \A k \in 1..(Len(InitializeEvents) - 1) :
       Place(ev, InitializeEvents[k]) < Place(ev, InitializeEvents[k + 1])

\* C20: an initialize() call that succeeds on an adapter not yet initialized
\* emits config:loaded, service:initializing and service:initialized exactly
\* once each and in that order, after adapter:initializing and before
\* adapter:initialized; a call on an initialized adapter emits nothing.
C20_InitializeEvents ==
  [][InitializeCall =>
       IF adapter.isInitialized
         THEN lastOp'.events = <<>>
         ELSE lastOp'.ok => EachOnceInOrder(lastOp'.events)
  ]_vars

\* The adapter's first successful initialize() has just emitted its events.
C20_Witness ==
  /\ lastOp.op = "initialize" /\ lastOp.ok /\ ~lastOp.unchanged
  /\ adapter.isInitialized
  /\ Times(lastOp.events, "service:initialized") = 1

\* A step that is a call of refreshSession() by the user.
RefreshCall == ops' = ops + 1 /\ lastOp'.op = "refreshSession"

\* C21: refreshSession() on a current session (every session is created by
\* API-key authentication) returns true and changes nothing but that
\* session's last_activity; without a current session it returns false and
\* changes nothing.
C21_RefreshKeepsSession ==
  [][RefreshCall =>
       /\ clientCreds' = clientCreds
       /\ IF HasCurrent(sm)
            THEN /\ lastOp'.ok
                 /\ sm' = [sm EXCEPT !.sessions[sm.current].last_activity = now]
            ELSE /\ ~lastOp'.ok
                 /\ sm' = sm
  ]_vars

\* The later of two times.
Later(a, b) == IF a >= b THEN a ELSE b

\* C22: while a session is current and less than five minutes from its
\* expiry on a manager that was not destroyed, the interval is running and
\* never more than 60 s pass without the sweep attempting a refresh: at
\* every such moment the session came under five minutes, or the sweep last
\* called refreshSession, at most 60 s ago.
C22_SweepRefreshesInTime ==
  Due(sm, now, refresh) =>
    /\ refresh.running
    /\ refresh.next <= now + SweepInterval
    /\ now - Later(refresh.since, refresh.attempt) <= SweepInterval

\* The session came under five minutes earlier and the sweep has just
\* attempted the refresh.
C22_Witness ==
  /\ Due(sm, now, refresh)
  /\ refresh.since # 0 /\ refresh.since < now
  /\ refresh.attempt = now

\* A step that is a call of cleanupExpiredSessions().
CleanupCall == ops' = ops + 1 /\ lastOp'.op = "cleanupExpiredSessions"

\* C23: sessions are created by API-key authentication only and never
\* expire: no call of cleanupExpiredSessions(), however late, removes a
\* session or unsets the current pointer.
C23_ApiKeySessionsNeverExpire ==
  [][CleanupCall => sm'.sessions = sm.sessions /\ sm'.current = sm.current]_vars

\* C24: cleanupExpiredSessions() leaves exactly the sessions whose expires_at
\* is not earlier than now, each as it was; the count it returns is the
\* number of sessions removed; and the current pointer is unset exactly when
\* it named a removed session, and otherwise kept.
C24_CleanupRemovesExpired ==
  [][CleanupCall =>
       LET gone == {i \in DOMAIN sm.sessions : sm.sessions[i].expires_at < now}
           kept == (DOMAIN sm.sessions) \ gone
       IN  /\ DOMAIN sm'.sessions = kept
           /\ \A i \in kept : sm'.sessions[i] = sm.sessions[i]
           /\ lastOp'.count = Cardinality(gone)
           /\ sm'.current = IF sm.current \in gone THEN 0 ELSE sm.current
  ]_vars

\* A sweep has removed one session and kept another, which is current.
C24_Witness ==
  /\ lastOp.op = "cleanupExpiredSessions"
  /\ lastOp.count = 1
  /\ sm.sessions # EmptyMap
  /\ HasCurrent(sm)

\* A step that is a call of switchSession(id).
SwitchCall == ops' = ops + 1 /\ lastOp'.op = "switchSession"

\* C25: switchSession(id) with an id that is not in the session map returns
\* false and leaves the current pointer, the session map and the client's
\* credentials as they were; with a known id it returns true, makes that
\* session current, gives the client that session's access token and emits
\* session:switched once.
C25_SwitchSession ==
  [][SwitchCall =>
       IF lastOp'.arg \notin DOMAIN sm.sessions
         THEN /\ ~lastOp'.ok
              /\ sm' = sm /\ clientCreds' = clientCreds
              /\ Times(lastOp'.events, "session:switched") = 0
         ELSE /\ lastOp'.ok
              /\ sm' = [sm EXCEPT !.current = lastOp'.arg]
              /\ clientCreds'.present
              /\ clientCreds'.access_token = sm.sessions[lastOp'.arg].access_token
              /\ Times(lastOp'.events, "session:switched") = 1
  ]_vars

\* The other of two sessions has just been made current.
C25_Witness ==
  /\ lastOp.op = "switchSession" /\ lastOp.ok
  /\ sm.current = lastOp.arg
  /\ Cardinality(DOMAIN sm.sessions) = 2
  /\ sm.current # sm.nextSession - 1
  /\ clientCreds.access_token = sm.sessions[sm.current].access_token
\* C26: after any sequence of handleError and clearHistory calls the error
\* history holds at most 100 records, and they are the most recent arrivals
\* since the last clearHistory, oldest first (so the 101st arrival evicts the
\* first); right after clearHistory the history is empty and totalErrors,
\* its length, is 0.
C26_HistoryKeepsLatestHundred ==
  LET n == Len(handler.errorHistory)
      since == handler.arrived - handler.cleared
  IN  /\ n <= 100
      /\ n = IF since < 100 THEN since ELSE 100
      /\ \A i \in 1..n : handler.errorHistory[i] = handler.arrived - n + i

\* The 101st error has arrived and the first one is gone.
C26_Witness ==
  /\ handler.arrived = 101
  /\ handler.cleared = 0
  /\ Len(handler.errorHistory) = 100
  /\ handler.errorHistory[1] = 2
  /\ handler.errorHistory[100] = 101

\* The step in which an adapter operation raises: one of the one-step
\* operations ends without success, or sendMessage gives up.
OperationFails ==
  \/ /\ ops' = ops + 1
     /\ lastOp'.op \in {"initialize", "authenticate", "updateConfiguration",
                        "resetConfiguration", "backupConfiguration",
                        "restoreConfiguration"}
     /\ ~lastOp'.ok
  \/ /\ send' # send
     /\ send'.pc = "idle"
     /\ send'.outcome \in {"userSafe", "raw"}

\* C27: every failure of an adapter operation (initialize, sendMessage,
\* authenticate, updateConfiguration, backupConfiguration,
\* restoreConfiguration, resetConfiguration) is classified and appended to
\* the error history before the operation raises: while the history holds
\* fewer than 100 records, totalErrors is strictly larger after the failed
\* operation than before, and no step of a sendMessage in progress makes it
\* smaller.
C27_FailuresAreRecorded ==
  [][/\ (OperationFails /\ Len(adapter.errorHistory) < 100)
          => Len(adapter'.errorHistory) > Len(adapter.errorHistory)
     /\ send.pc # "idle" => Len(adapter'.errorHistory) >= Len(adapter.errorHistory)]_vars

\* A restoreConfiguration has failed after an earlier failure was recorded.
C27_Witness ==
  /\ lastOp.op = "restoreConfiguration"
  /\ ~lastOp.ok
  /\ Len(adapter.errorHistory) >= 2

\* C28: for an HTTP error response the classifier maps status 400 to
\* invalid_request, 401 to authentication and 403 to access_denied, all
\* non-retryable, 429 to rate_limit_exceeded, retryable, and every status
\* from 500 to 599 to service_unavailable, retryable; without a response
\* the transport code ECONNABORTED maps to timeout and ENOTFOUND and
\* ECONNREFUSED to connection, both retryable.
C28_StatusMapping ==
  (handler.pc = "classified" /\ handler.error.t = "axios") =>
    LET status == handler.error.status
        code == handler.error.code
        r == handler.result
    IN  /\ status = 400 => r = Classified("INVALID_REQUEST", FALSE)
        /\ status = 401 => r = Classified("AUTHENTICATION_ERROR", FALSE)
        /\ status = 403 => r = Classified("ACCESS_DENIED", FALSE)
        /\ status = 429 => r = Classified("RATE_LIMIT_EXCEEDED", TRUE)
        /\ status \in 500..599 => r = Classified("SERVICE_UNAVAILABLE", TRUE)
        /\ (status = 0 /\ code = "ECONNABORTED") => r = Classified("TIMEOUT_ERROR", TRUE)
        /\ (status = 0 /\ code \in {"ENOTFOUND", "ECONNREFUSED"})
             => r = Classified("CONNECTION_ERROR", TRUE)

Group(kind, words) == [kind |-> kind, words |-> words]

\* The keyword groups as the claim lists them.
ListedGroups ==
  {Group("NETWORK_ERROR", {"network", "connection"}),
   Group("TIMEOUT_ERROR", {"timeout"}),
   Group("AUTHENTICATION_ERROR", {"auth", "login", "credential"}),
   Group("CONFIGURATION_ERROR", {"config", "setting"}),
   Group("RATE_LIMIT_EXCEEDED", {"rate limit"}),
   Group("QUOTA_EXCEEDED", {"quota"}),
   Group("CONTENT_FILTER", {"content", "filter"})}

\* The keyword groups with 'too many requests' and 'limit' added.
FullGroups ==
  {Group("NETWORK_ERROR", {"network", "connection"}),
   Group("TIMEOUT_ERROR", {"timeout"}),
   Group("AUTHENTICATION_ERROR", {"auth", "login", "credential"}),
   Group("CONFIGURATION_ERROR", {"config", "setting"}),
   Group("RATE_LIMIT_EXCEEDED", {"rate limit", "too many requests"}),
   Group("QUOTA_EXCEEDED", {"quota", "limit"}),
   Group("CONTENT_FILTER", {"content", "filter"})}

\* The groups a message has a keyword of; 'limit' counts only in a message
\* without 'rate limit'.
GroupsIn(groups, words) ==
  {g \in groups :
     (g.words \ (IF "rate limit" \in words THEN {"limit"} ELSE {})) \cap words # {}}

GenericClassified == handler.pc = "classified" /\ handler.error.t = "generic"

\* C29: a generic error is classified from its lower-cased message: a
\* message with keywords of exactly one group gets that group's kind
\* (network/connection, timeout, auth/login/credential, config/setting,
\* rate limit, quota, content/filter), and a message with none of these
\* keywords is classified unknown and non-retryable.
C29_ListedKeywords ==
  GenericClassified =>
    LET present == GroupsIn(ListedGroups, handler.error.words)
    IN  /\ Cardinality(present) = 1 => \A g \in present : handler.result.code = g.kind
        /\ present = {} => handler.result = Classified("UNKNOWN_ERROR", FALSE)

\* C29, amended: the same with the groups rate limit / too many requests
\* -> rate_limit_exceeded and quota / limit (in a message without
\* 'rate limit') -> quota_exceeded.
C29_FullKeywords ==
  GenericClassified =>
    LET present == GroupsIn(FullGroups, handler.error.words)
    IN  /\ Cardinality(present) = 1 => \A g \in present : handler.result.code = g.kind
        /\ present = {} => handler.result = Classified("UNKNOWN_ERROR", FALSE)

\* 'Rate limit reached' has been classified: it contains 'limit' as well.
C29_Witness ==
  /\ GenericClassified
  /\ handler.error.words = {"rate limit", "limit"}
  /\ handler.result = Classified("RATE_LIMIT_EXCEEDED", TRUE)

ActionNames(a) == [i \in DOMAIN a |-> a[i].action]

\* C30: for every error kind getRecoveryActions returns a non-empty list
\* sorted by ascending priority number (rate_limit_exceeded gives wait,
\* reduce_frequency, both automatic; authentication gives reauthenticate,
\* check_credentials, both manual), and shouldAutoRecover is true exactly
\* when that list contains an automatic action.
C30_RecoveryActions ==
  handler.pc = "recovered" =>
    LET a == handler.actions
        code == handler.result.code
    IN  /\ a # <<>>
        /\ \A i \in 1..(Len(a) - 1) : a[i].priority <= a[i + 1].priority
        /\ code = "RATE_LIMIT_EXCEEDED" =>
             /\ ActionNames(a) = <<"wait", "reduce_frequency">>
             /\ \A i \in DOMAIN a : a[i].automatic
        /\ code = "AUTHENTICATION_ERROR" =>
             /\ ActionNames(a) = <<"reauthenticate", "check_credentials">>
             /\ \A i \in DOMAIN a : ~a[i].automatic
        /\ handler.auto = (\E i \in DOMAIN a : a[i].automatic)

\* The recovery actions of a network error have been asked for: the first
\* is manual, the second automatic.
C30_Witness ==
  /\ handler.pc = "recovered"
  /\ handler.result.code = "NETWORK_ERROR"
  /\ ActionNames(handler.actions) = <<"check_network", "retry">>
  /\ handler.auto

\* C31: restoring a snapshot that does not exist, or whose merge over the
\* defaults fails validation, fails and leaves the configuration file and
\* the in-memory configuration as they were; a restore that changes either
\* of them was given a snapshot that exists and validates.
C31_RestoreValidates ==
  [][\A b \in SnapshotChoices :
       (lastOp'.op = "restoreConfiguration" /\ ops' = ops + 1 /\ RestoreConfiguration(b)) =>
         LET valid == b.exists /\ validateConfig(mergeWithDefaults(b, adapter.nextCred))
         IN  /\ ~valid => /\ ~lastOp'.ok
                          /\ file' = file
                          /\ adapter'.config = adapter.config
             /\ (file' # file \/ adapter'.config # adapter.config) => valid
             /\ valid => lastOp'.ok]_vars

\* A snapshot that fails validation was refused while a configuration file
\* was in place.
C31_Witness ==
  /\ lastOp.op = "restoreConfiguration"
  /\ ~lastOp.ok
  /\ file.exists
  /\ adapter.errorHistory # <<>>
  /\ adapter.errorHistory[Len(adapter.errorHistory)] = "CONFIGURATION_ERROR"

\* The step in which chat() sends its HTTP request.
ChatSent == ~pending.active /\ pending'.active

\* C32: every HTTP attempt carries the credentials configured at the moment
\* it is sent: Bearer <api_key> when an API key is configured and no access
\* token is present, also when the key was set through updateConfig after
\* construction; in authenticated mode the session cookie and Bearer
\* <access_token> when those tokens are present.
C32_HeadersFollowConfig ==
  [][ChatSent =>
       LET config == svc'.config
           creds == clientCreds'
           hasAccess == creds.present /\ creds.access_token # <<>>
           hasCookie == creds.present /\ creds.session_token # <<>>
       IN  /\ (config.api_key # <<>> /\ ~hasAccess)
                => pending'.headers.authorization = config.api_key
           /\ (config.mode = "authenticated" /\ hasAccess)
                => pending'.headers.authorization = creds.access_token
           /\ (config.mode = "authenticated" /\ hasCookie)
                => pending'.headers.cookie = creds.session_token]_vars

\* C33: a request() call made with retry: false issues exactly one HTTP
\* attempt whatever that attempt fails with (429, a status >= 500, no
\* response), and the failure is raised to the caller.
C33_OptOutMeansOneAttempt ==
  [][(stack # <<>> /\ ~stack[1].retry) =>
       /\ httpAttempts' <= 1
       /\ (stack' = <<>> /\ outcomes' # <<>> /\ ~outcomes'[1].ok
             /\ (outcomes'[1].status \in {0, 429} \/ outcomes'[1].status >= 500))
            => ret'.kind = "throw"]_vars

IsBackoffSleep(s) == s.why = "backoff"

\* Every attempt of the call so far failed with a status >= 500 or without
\* a response.
OnlyServerFailures ==
  \A i \in DOMAIN outcomes :
    ~outcomes[i].ok /\ (outcomes[i].status = 0 \/ outcomes[i].status >= 500)

\* C34: within one request() call the k-th consecutive retry after a status
\* >= 500 or a connection/timeout failure waits an un-jittered
\* min(1000 * 2^k, 30000) ms first: 2000, 4000, 8000, ... ms for a request
\* that keeps failing.
C34_RetriesBackOffExponentially ==
  OnlyServerFailures =>
    LET waits == SelectSeq(sleeps, IsBackoffSleep)
    IN  \A k \in DOMAIN waits :
          /\ waits[k].ms >= CappedExponential(k)
          /\ waits[k].ms < CappedExponential(k) + 1000

\* The client holds no token of a session.
NoSessionCredentials(creds) == creds.access_token = <<>> /\ creds.session_token = <<>>

\* C35: between operations the client's credentials match the current
\* session: after a successful authenticate or switchSession the client's
\* tokens are those of the current session, and whenever a step leaves no
\* session current (clearCurrentSession, a 401, the expiry sweep removing
\* the current session) the client holds no session credentials.
C35_ClientFollowsSession ==
  [][/\ (ops' = ops + 1 /\ lastOp'.op \in {"authenticate", "switchSession"} /\ lastOp'.ok)
          => /\ HasCurrent(sm')
             /\ clientCreds'.present
             /\ clientCreds'.access_token = sm'.sessions[sm'.current].access_token
     /\ (HasCurrent(sm) /\ ~HasCurrent(sm')) => NoSessionCredentials(clientCreds')]_vars

\* The sessions whose conversation map holds the id.
Owners(m, cid) == {k \in DOMAIN m.sessions : cid \in DOMAIN m.sessions[k].conversations}

\* The step in which a suspended chat() returns successfully.
ChatCompletes == pending.active /\ ~pending'.active /\ lastOp'.op = "chat" /\ lastOp'.ok

\* C36: every conversation is owned by exactly one session: whatever ran
\* while chat() was suspended on its HTTP call (authenticate, switchSession,
\* clearCurrentSession, the expiry sweep), the completing chat puts its
\* conversation into no second session and into no session other than the
\* one that owned it when the chat started, and the turn is recorded in that
\* session, if it still exists.
C36_ConversationHasOneOwner ==
  [][ChatCompletes =>
       /\ Cardinality(Owners(sm, pending.id)) <= 1
            => Cardinality(Owners(sm', pending.id)) <= 1
       /\ pending.owner # 0 => Owners(sm', pending.id) \subseteq {pending.owner}
       /\ pending.owner \in DOMAIN sm'.sessions =>
            /\ pending.id \in DOMAIN sm'.sessions[pending.owner].conversations
            /\ sm'.sessions[pending.owner].conversations[pending.id].messages
                 = pending.messages \o <<"user", "assistant">>]_vars

\* C37: after chat() returned successfully with conversation id c,
\* getConversation(c) returns the conversation holding that user turn and
\* assistant turn, so that a following chat(text, {conversationId: c})
\* finds it, whatever the mode and whether or not a session is current.
C37_ReturnedConversationIsKept ==
  [][ChatCompletes =>
       /\ HasCurrent(sm')
       /\ pending.id \in DOMAIN sm'.sessions[sm'.current].conversations
       /\ StoredMessages(sm', pending.id) = pending.messages \o <<"user", "assistant">>]_vars

\* chatCompletion() calls request() with retries enabled.
ChatRequestThrows ==
  /\ Len(stack) = 1 /\ stack[1].retry
  /\ stack' = <<>> /\ ret'.kind = "throw"

\* C38: when a chat request ultimately fails because the server answered 429,
\* the usage statistics' rate_limited flag is true afterwards; the flag is
\* not raised by a call in which no attempt got a 429.
C38_RateLimitIsFlagged ==
  [][ChatRequestThrows =>
       LET flag == makeChatRequestCatch(FALSE, ret'.err)
       IN  /\ (outcomes # <<>> /\ outcomes[Len(outcomes)].status = 429) => flag
           /\ flag => \E i \in DOMAIN outcomes : outcomes[i].status = 429]_vars

\* chat() rejects: at once (not initialized, unknown conversation id) or
\* after its HTTP call failed.
ChatFails ==
  /\ lastOp'.op = "chat" /\ ~lastOp'.ok
  /\ ops' = ops + 1 \/ (pending.active /\ ~pending'.active)

\* The sessions that hold the conversation object oid.
HoldersOf(m, oid) ==
  {s \in DOMAIN m.sessions :
     \E c \in DOMAIN m.sessions[s].conversations :
        m.sessions[s].conversations[c].oid = oid}

\* C39: a chat() that fails leaves every session's conversation map, token
\* count and stored message sequences as they were before the call: the
\* failing step changes none of them, and the conversation the call created
\* for itself is in no session's map once the call has failed.
C39_FailedChatChangesNothing ==
  [][ChatFails =>
       /\ \A s \in DOMAIN sm.sessions \cap DOMAIN sm'.sessions :
            /\ sm'.sessions[s].conversations = sm.sessions[s].conversations
            /\ sm'.sessions[s].token_count = sm.sessions[s].token_count
       /\ (pending.active /\ pending.fresh) => HoldersOf(sm', pending.oid) = {}]_vars

\* C40: saveConfiguration, and every operation that calls it, leaves the
\* secrets of the in-memory configuration as they were handed to the save:
\* after updateConfiguration(n) the adapter's api_key and
\* credentials.password are those of the merged configuration, and after a
\* successful authenticate the password is the one that was passed in.
C40_SaveKeepsSecrets ==
  [][/\ \A n \in AdapterConfigChoices :
          (lastOp'.op = "updateConfiguration" /\ ops' = ops + 1
             /\ UpdateConfiguration(n)) =>
            LET merged == MergeConfig(adapter.config,
                                      [n EXCEPT !.credId = adapter.nextCred])
            IN  /\ adapter'.config.api_key = merged.api_key
                /\ adapter'.config.password = merged.password
     /\ (lastOp'.op = "authenticate" /\ lastOp'.ok /\ ops' = ops + 1) =>
          adapter'.config.password = Password]_vars

\*CLAIMS-END
====
